---------------------------- MODULE Spec2Model ----------------------------
(***************************************************************************)
(* Parallax Maker: the session state kept by AppState and the Dash         *)
(* callbacks of webui.py that read and write it.  One action per callback; *)
(* the browser's trigger chain between callbacks (a callback's Output that *)
(* is another callback's Input) is the set `pending`.                      *)
(*                                                                         *)
(* Python's None is the empty set and a present value v is {v}.            *)
(* Python lists are sequences; index i of the code is index i+1 here.      *)
(***************************************************************************)
EXTENDS Integers, Sequences, FiniteSets, TLC

VARIABLES
    num_slices,             \* state.num_slices
    imgThresholds,          \* state.imgThresholds (None or a list)
    depthMapData,           \* state.depthMapData (None or a depth map)
    slice_pixel,            \* state.slice_pixel (None or a pixel)
    slice_pixel_depth,      \* state.slice_pixel_depth
    slice_mask,             \* state.slice_mask (None or a mask)
    selected_slice,         \* state.selected_slice (None or an index)
    image_slices,           \* state.image_slices (alpha plane of each layer)
    image_depths,           \* state.image_depths
    image_slices_filenames, \* state.image_slices_filenames
    positive_prompts,       \* state.positive_prompts
    negative_prompts,       \* state.negative_prompts
    ui_num_slices,          \* value of the slider C.SLIDER_NUM_SLICES
    sliders,                \* values of the rendered threshold sliders
    pending,                \* callbacks the browser has yet to run
    call,                   \* the last callback run: arguments and outcome
    fresh,                  \* layers were generated from the present inputs
    imgData,                \* state.imgData (alpha plane of the main image)
    clipboard_image,        \* state.clipboard_image (None or an alpha plane)
    files,                  \* layer files on disk: filename -> alpha plane
    depth_files,            \* layer filenames whose depth file is on disk
    upscaled_files,         \* layer filenames whose upscaled file is on disk
    effects,                \* what the last layer callback called and wrote
    image_sizes,            \* (width, height) of each layer's pixel buffer
    file_sizes,             \* layer files on disk: filename -> (width, height)
    imgData_size,           \* (width, height) of state.imgData
    points_selected,        \* state.points_selected: (point, ctrl) pairs
    multi_point_mode,       \* state.multi_point_mode
    tiles                   \* upscaler: the tile loop of one upscaled image

vars == <<num_slices, imgThresholds, depthMapData, slice_pixel,
          slice_pixel_depth, slice_mask, selected_slice, image_slices,
          image_depths, image_slices_filenames, positive_prompts,
          negative_prompts, ui_num_slices, sliders, pending, call, fresh,
          imgData, clipboard_image, files, depth_files, upscaled_files,
          effects, image_sizes, file_sizes, imgData_size, points_selected,
          multi_point_mode, tiles>>

session == <<num_slices, imgThresholds, depthMapData, slice_pixel,
             slice_pixel_depth, slice_mask, selected_slice, image_slices,
             image_depths, image_slices_filenames, positive_prompts,
             negative_prompts>>

layerdisk == <<imgData, clipboard_image, files, depth_files, upscaled_files,
               effects>>

canvas == <<image_sizes, file_sizes, imgData_size>>

(* what the layer callbacks leave alone: the points collected for the
   segmentation and the upscaler's tile loop *)
multipoint == <<points_selected, multi_point_mode, tiles>>

----------------------------------------------------------------------------
(* Bounds of the model. *)

MaxSlices == 3      \* slice counts 2..MaxSlices of the browser session
MaxCallSlices == 4  \* slice counts 2..MaxCallSlices of the direct calls
Edge == 1           \* slider values 0..Edge and 255-Edge..255 are tried
NumPixels == 2      \* pixels of the image and of the depth map
MaxVersion == 3     \* layer file versions up to _v<MaxVersion>
MaxDisplacement == 1 \* displacement scales 0..MaxDisplacement
MaxPoints == 2      \* points collected in multi-point mode
MaxSide == 4        \* widths and heights 1..MaxSide of an upscaled image
MaxTileSize == 3    \* tile sizes 1..MaxTileSize of the upscaler

(* Largest depth value and largest slider value. *)
MaxDepth == 255

None == {}
Some(v) == {v}
Val(o) == CHOOSE v \in o : TRUE

SliceCounts == 2..MaxSlices
Pixels == 1..NumPixels
SliderValues == (0..Edge) \cup ((MaxDepth - Edge)..MaxDepth)
DepthLevels == {0, 128, MaxDepth}

(* no image is being upscaled *)
NoTiles == [width |-> 0, height |-> 0, tile_size |-> 0, overlap |-> 0,
            x |-> 0, y |-> 0, visited |-> << >>, returned |-> FALSE]

(* The depth maps the depth model produces here: pixel 1 in front of the
   others, at near and at far depths. *)
NearFar == [p \in Pixels |-> IF p = 1 THEN 0 ELSE 128]
FarFarther == [p \in Pixels |-> IF p = 1 THEN 128 ELSE MaxDepth]
DepthMaps == {NearFar, FarFarther}

StrictlyIncreasing(s) == \A i \in 1..(Len(s) - 1) : s[i] < s[i + 1]

(* Sequences over S of length lo..hi. *)
SeqsOf(S, lo, hi) == UNION {[1..k -> S] : k \in lo..hi}

----------------------------------------------------------------------------
(* Python list slicing used by update_threshold_values. *)

(* s[1:-1] *)
Interior(s) == SubSeq(s, 2, Len(s) - 1)

(* s[1:] = tv: the slice runs to the end and takes the last boundary too *)
SliceAssignToEnd(s, tv) ==
    (IF Len(s) >= 1 THEN <<s[1]>> ELSE << >>) \o tv

(* s[1:-1] = tv *)
SliceAssign(s, tv) ==
    (IF Len(s) >= 1 THEN <<s[1]>> ELSE << >>) \o tv \o
    (IF Len(s) >= 2 THEN <<s[Len(s)]>> ELSE << >>)

----------------------------------------------------------------------------
(* The repair pass of update_threshold_values. *)

(* if threshold_values[0] <= 0: threshold_values[0] = 1 *)
ClampFirst(tv) == IF tv[1] <= 0 THEN [tv EXCEPT ![1] = 1] ELSE tv

(* for i in range(1, num_slices-1): push a value that is not above its
   predecessor to predecessor + 1.  k is the 1-based index, k = i + 1. *)
RECURSIVE ForwardPass(_, _, _)
ForwardPass(tv, k, n) ==
    IF k > n - 1 THEN tv
    ELSE ForwardPass(IF tv[k] <= tv[k - 1]
                     THEN [tv EXCEPT ![k] = tv[k - 1] + 1]
                     ELSE tv, k + 1, n)

(* if threshold_values[-1] >= 255: threshold_values[-1] = 254 *)
ClampLast(tv) ==
    IF tv[Len(tv)] >= MaxDepth THEN [tv EXCEPT ![Len(tv)] = MaxDepth - 1]
    ELSE tv

(* for i in range(num_slices-3, -1, -1): pull a value that is not below its
   successor to successor - 1.  k is the 1-based index, k = i + 1. *)
RECURSIVE BackwardPass(_, _)
BackwardPass(tv, k) ==
    IF k < 1 THEN tv
    ELSE BackwardPass(IF tv[k] >= tv[k + 1]
                      THEN [tv EXCEPT ![k] = tv[k + 1] - 1]
                      ELSE tv, k - 1)

(* The indexing threshold_values[0] and threshold_values[i], i < n-1, raises
   IndexError on a list that is too short. *)
RepairRaises(tv, n) == Len(tv) = 0 \/ n - 1 > Len(tv)

RepairThresholds(tv, n) ==
    BackwardPass(ClampLast(ForwardPass(ClampFirst(tv), 2, n)), n - 2)

----------------------------------------------------------------------------
(* AppState.depth_slice_from_pixel: the mask of the pixels whose depth lies
   in the same band as the depth of the clicked pixel, and that depth.
   Without a depth map or thresholds there is no mask. *)

InBand(th, i, d) == th[i] <= d /\ d < th[i + 1]

depth_slice_from_pixel(dm, th, p) ==
    IF dm = None \/ th = None
    THEN [mask |-> None, depth |-> -1]
    ELSE LET d == Val(dm)[p]
             t == Val(th)
             same(q) == \E i \in 1..(Len(t) - 1) :
                           InBand(t, i, d) /\ InBand(t, i, Val(dm)[q])
         IN [mask |-> Some([q \in Pixels |-> IF same(q) THEN 255 ELSE 0]),
             depth |-> d]

----------------------------------------------------------------------------
(* The record of a callback run. *)

(* handler, signal: which callback ran and how it ended ("returned",
   "PreventUpdate" or the exception raised); arg, n: its arguments; ret: the
   threshold vector it returned; pre, pre_mask: state.imgThresholds and
   state.slice_mask when it was entered; to_file: it wrote the session to
   disk; repeat: its inputs were those of the previous generate_slices. *)
Called(handler, signal, arg, n, ret, to_file) ==
    [handler |-> handler, signal |-> signal, arg |-> arg, n |-> n,
     ret |-> ret, pre |-> imgThresholds, pre_mask |-> slice_mask,
     to_file |-> to_file, repeat |-> fresh]

NoCall == [handler |-> "none", signal |-> "none", arg |-> << >>, n |-> 0,
           ret |-> << >>, pre |-> None, pre_mask |-> None,
           to_file |-> FALSE, repeat |-> FALSE]

----------------------------------------------------------------------------
(* update_threshold_values(threshold_values, num_slices, filename) *)

(* state.imgThresholds == threshold_values: the boundaries are compared too *)
SameAsWholeList(tv) == Val(imgThresholds) = tv

(* state.imgThresholds[1:-1] == threshold_values *)
SameAsStored(tv) == Interior(Val(imgThresholds)) = tv

(* the mask recomputed from the pending pixel, when there is one *)
MaskAfterUpdate(th) ==
    IF slice_pixel = None THEN slice_mask
    ELSE depth_slice_from_pixel(depthMapData, th, Val(slice_pixel)).mask

update_threshold_values(tv, n, filename) ==
    LET others == <<num_slices, depthMapData, slice_pixel, slice_pixel_depth,
                    selected_slice, image_slices, image_depths,
                    image_slices_filenames, positive_prompts,
                    negative_prompts>>
        skip(signal) ==
            /\ call' = Called("update_threshold_values", signal, tv, n,
                              << >>, FALSE)
            /\ UNCHANGED <<imgThresholds, slice_mask, fresh>>
    IN /\ UNCHANGED others
       /\ IF filename = None THEN skip("PreventUpdate")
          ELSE IF imgThresholds = None THEN skip("TypeError")
          ELSE IF SameAsStored(tv) THEN skip("PreventUpdate")
          ELSE IF RepairRaises(tv, n) THEN skip("IndexError")
          ELSE LET r == RepairThresholds(tv, n)
                   th == Some(SliceAssign(Val(imgThresholds), r))
               IN /\ imgThresholds' = th
                  /\ slice_mask' = MaskAfterUpdate(th)
                  /\ fresh' = (fresh /\ th = imgThresholds)
                  /\ call' = Called("update_threshold_values", "returned",
                                    tv, n, r, FALSE)

----------------------------------------------------------------------------
(* The session in the browser: the callbacks of webui.py as the user and
   the trigger chain run them.  A callback whose Input was written by
   another callback is in `pending` and runs before the user acts again. *)

Filename == Some("appstate")

(* analyze_depth_histogram(depth_map, num_slices): num_slices - 1 interior
   boundaries between t0 = 0 and the last boundary 255, strictly increasing;
   more mass at far depths moves the boundaries up. *)
Far(dm) == Cardinality({p \in Pixels : dm[p] > 128})

analyze_depth_histogram(dm, n) ==
    <<0>> \o [i \in 1..(n - 1) |-> (i * MaxDepth) \div n + Far(dm)]
          \o <<MaxDepth>>

(* the thresholds update_thresholds stores without a depth map:
   [0] + [i * (255 // (num_slices - 1)) for i in range(1, num_slices)] *)
DefaultThresholds(n) ==
    <<0>> \o [i \in 1..(n - 1) |-> i * (MaxDepth \div (n - 1))]

(* update_thresholds(contents, num_slices, filename, logs_data) *)
update_thresholds(n, filename) ==
    LET others == <<depthMapData, slice_pixel, slice_pixel_depth, slice_mask,
                    selected_slice, image_slices, image_depths,
                    image_slices_filenames, positive_prompts,
                    negative_prompts, sliders>>
        stop ==
            /\ call' = Called("update_thresholds", "PreventUpdate", << >>, n,
                              << >>, FALSE)
            /\ UNCHANGED <<num_slices, imgThresholds, fresh>>
        th == IF depthMapData = None THEN Some(DefaultThresholds(n))
              ELSE IF imgThresholds = None \/ Len(Val(imgThresholds)) # n
                   THEN Some(analyze_depth_histogram(Val(depthMapData), n))
                   ELSE imgThresholds
    IN /\ UNCHANGED others
       /\ IF filename = None THEN stop
          ELSE IF /\ num_slices = n
                  /\ imgThresholds # None
                  /\ Len(Val(imgThresholds)) = n + 1
               THEN stop
          ELSE /\ num_slices' = n
               /\ imgThresholds' = th
               /\ fresh' = (fresh /\ th = imgThresholds)
               /\ call' = Called("update_thresholds", "returned", << >>, n,
                                 << >>, FALSE)

(* its Output C.STORE_UPDATE_THRESHOLD_CONTAINER is the Input of
   update_thresholds_html *)
AfterUpdateThresholds ==
    IF call'.signal = "returned"
    THEN (pending \ {"update_thresholds"}) \cup {"update_thresholds_html"}
    ELSE pending \ {"update_thresholds"}

(* update_thresholds run because the depth map container was rewritten *)
UpdateThresholdsOnDepthMap ==
    /\ "update_thresholds" \in pending
    /\ update_thresholds(ui_num_slices, Filename)
    /\ pending' = AfterUpdateThresholds
    /\ UNCHANGED ui_num_slices
    /\ UNCHANGED <<layerdisk, canvas, multipoint>>

(* update_thresholds run because the user moved the slice count slider *)
UpdateThresholdsOnSlider ==
    /\ pending = {}
    /\ \E n \in SliceCounts \ {ui_num_slices} :
          /\ ui_num_slices' = n
          /\ update_thresholds(n, Filename)
    /\ pending' = AfterUpdateThresholds
    /\ UNCHANGED <<layerdisk, canvas, multipoint>>

(* update_thresholds_html(value, filename): one slider per i in
   range(1, state.num_slices), showing state.imgThresholds[i] *)
update_thresholds_html ==
    /\ "update_thresholds_html" \in pending
    /\ pending' = pending \ {"update_thresholds_html"}
    /\ IF imgThresholds = None
       THEN /\ call' = Called("update_thresholds_html", "TypeError", << >>,
                              num_slices, << >>, FALSE)
            /\ UNCHANGED sliders
       ELSE IF Len(Val(imgThresholds)) < num_slices
       THEN /\ call' = Called("update_thresholds_html", "IndexError", << >>,
                              num_slices, << >>, FALSE)
            /\ UNCHANGED sliders
       ELSE /\ sliders' = [i \in 1..(num_slices - 1) |->
                              Val(imgThresholds)[i + 1]]
            /\ call' = Called("update_thresholds_html", "returned", << >>,
                              num_slices, << >>, FALSE)
    /\ UNCHANGED <<session, ui_num_slices, fresh>>
    /\ UNCHANGED <<layerdisk, canvas, multipoint>>

(* The user drags one threshold slider; update_threshold_values receives
   the values of all sliders and its first Output rewrites them. *)
ThresholdSliderMoved ==
    /\ pending = {}
    /\ \E j \in 1..Len(sliders) : \E v \in SliderValues \ {sliders[j]} :
          LET tv == [sliders EXCEPT ![j] = v]
          IN /\ update_threshold_values(tv, ui_num_slices, Filename)
             /\ sliders' = IF call'.signal = "returned" THEN call'.ret
                           ELSE tv
    /\ UNCHANGED <<ui_num_slices, pending>>
    /\ UNCHANGED <<layerdisk, canvas, multipoint>>

(* generate_depth_map_from_button(n_clicks, filename) *)
generate_depth_map_from_button ==
    /\ pending = {}
    /\ pending' = {"generate_depth_map_callback"}
    /\ call' = Called("generate_depth_map_from_button", "returned", << >>, 0,
                      << >>, FALSE)
    /\ UNCHANGED <<session, ui_num_slices, sliders, fresh>>
    /\ UNCHANGED <<layerdisk, canvas, multipoint>>

(* `state.imgThresholds = None` after the depth map was replaced *)
ThresholdsKept == imgThresholds
InvalidatedThresholds == None

(* generate_depth_map_callback(ignored_data, filename, model): the depth
   model's output replaces the depth map and the thresholds are dropped *)
generate_depth_map_callback ==
    /\ "generate_depth_map_callback" \in pending
    /\ \E dm \in DepthMaps : depthMapData' = Some(dm)
    /\ imgThresholds' = InvalidatedThresholds
    /\ fresh' = FALSE
    /\ pending' = (pending \ {"generate_depth_map_callback"})
                     \cup {"update_depth_map_callback"}
    /\ call' = Called("generate_depth_map_callback", "returned", << >>, 0,
                      << >>, FALSE)
    /\ UNCHANGED <<num_slices, slice_pixel, slice_pixel_depth, slice_mask,
                   selected_slice, image_slices, image_depths,
                   image_slices_filenames, positive_prompts,
                   negative_prompts, ui_num_slices, sliders>>
    /\ UNCHANGED <<layerdisk, canvas, multipoint>>

(* update_depth_map_callback(ignored_data, filename): draws the depth map
   into the container update_thresholds listens to *)
update_depth_map_callback ==
    /\ "update_depth_map_callback" \in pending
    /\ pending' = (pending \ {"update_depth_map_callback"})
                     \cup {"update_thresholds"}
    /\ call' = Called("update_depth_map_callback", "returned", << >>, 0,
                      << >>, FALSE)
    /\ UNCHANGED <<session, ui_num_slices, sliders, fresh>>
    /\ UNCHANGED <<layerdisk, canvas, multipoint>>

(* click_event(n_clicks, n_events, e, rect_data, mode, filename, logs_data)
   for a click on the image (trigger 'el') in a mode other than 'segment':
   the clicked band is the new mask; shift adds it to the pending mask and
   ctrl takes it out of the pending mask. *)
MaskUnion(a, b) ==
    [p \in Pixels |-> IF a[p] >= b[p] THEN a[p] ELSE b[p]]
MaskIntersect(a, b) ==
    [p \in Pixels |-> IF a[p] <= b[p] THEN a[p] ELSE b[p]]
MaskMinus(a, b) ==
    [p \in Pixels |-> IF a[p] <= 255 - b[p] THEN a[p] ELSE 255 - b[p]]

click_event(p, shiftClick, ctrlClick) ==
    LET new == depth_slice_from_pixel(depthMapData, imgThresholds, p)
        combine == slice_mask # None /\ (shiftClick \/ ctrlClick)
    IN /\ slice_pixel' = Some(p)
       /\ slice_pixel_depth' = new.depth
       /\ IF ~combine
          THEN /\ slice_mask' = new.mask
               /\ call' = Called("click_event", "returned", << >>, 0, << >>,
                                 FALSE)
          ELSE IF new.mask = None
          THEN /\ UNCHANGED slice_mask
               /\ call' = Called("click_event", "TypeError", << >>, 0, << >>,
                                 FALSE)
          ELSE /\ slice_mask' =
                     IF shiftClick
                     THEN Some(MaskUnion(Val(slice_mask), Val(new.mask)))
                     ELSE Some(MaskMinus(Val(slice_mask), Val(new.mask)))
               /\ call' = Called("click_event", "returned", << >>, 0, << >>,
                                 FALSE)
       /\ UNCHANGED <<num_slices, imgThresholds, depthMapData,
                      selected_slice, image_slices, image_depths,
                      image_slices_filenames, positive_prompts,
                      negative_prompts, fresh>>

ImageClicked ==
    /\ pending = {}
    /\ \E p \in Pixels, shiftClick \in BOOLEAN, ctrlClick \in BOOLEAN :
          click_event(p, shiftClick, ctrlClick)
    /\ UNCHANGED <<ui_num_slices, sliders, pending>>
    /\ UNCHANGED <<layerdisk, canvas, multipoint>>

(* display_slice(n_clicks, id, src, classnames, filename): a click on a
   layer selects it, a click on the selected layer clears the selection *)
display_slice ==
    /\ pending = {}
    /\ \E index \in 1..Len(image_slices) :
          selected_slice' = IF selected_slice # Some(index) THEN Some(index)
                            ELSE None
    /\ call' = Called("display_slice", "returned", << >>, 0, << >>, FALSE)
    /\ UNCHANGED <<num_slices, imgThresholds, depthMapData, slice_pixel,
                   slice_pixel_depth, slice_mask, image_slices, image_depths,
                   image_slices_filenames, positive_prompts,
                   negative_prompts, ui_num_slices, sliders, pending, fresh>>
    /\ UNCHANGED <<layerdisk, canvas, multipoint>>

(* generate_image_slices(image, depth_map, thresholds, num_expand): one
   layer per band [thresholds[i], thresholds[i+1]), its alpha set on the
   pixels whose depth is in the band, and the mean depth of those pixels
   (0 for a band without pixels) as its depth. *)
RECURSIVE SumDepth(_, _)
SumDepth(dm, P) ==
    IF P = {} THEN 0
    ELSE LET p == CHOOSE q \in P : TRUE
         IN dm[p] + SumDepth(dm, P \ {p})

BandPixels(dm, th, i) == {p \in Pixels : InBand(th, i, dm[p])}

generate_image_slices(dm, th) ==
    [slices |-> [i \in 1..(Len(th) - 1) |->
                    [p \in Pixels |-> IF InBand(th, i, dm[p]) THEN 255
                                      ELSE 0]],
     depths |-> [i \in 1..(Len(th) - 1) |->
                    IF BandPixels(dm, th, i) = {} THEN 0
                    ELSE SumDepth(dm, BandPixels(dm, th, i))
                            \div Cardinality(BandPixels(dm, th, i))]]

(* AppState.to_file with save_image_slices: layers without a filename get
   one; a filename is the layer's position when it was named and its
   version. *)
SavedFilenames(slices, names) ==
    IF Len(names) = 0 THEN [i \in 1..Len(slices) |-> <<i, 0>>] ELSE names

(* What a layer callback called and wrote.  from_cache: AppState.from_cache
   was consulted; to_file: the keyword arguments of each state.to_file
   call, as the set of the arguments passed; generate_depth_map,
   postprocess_depth_map, saved_depth: the layers (filenames for
   saved_depth) these were called for, in call order; textures,
   depth_textures, displacement_scale: what export_gltf was given. *)
NoClick == [t_id |-> "", event |-> FALSE, rect_data |-> FALSE, mode |-> "",
            filename |-> FALSE, shiftClick |-> FALSE, ctrlClick |-> FALSE]

NoEffects ==
    [from_cache |-> FALSE, to_file |-> << >>, generate_depth_map |-> << >>,
     postprocess_depth_map |-> << >>, saved_depth |-> << >>,
     exported |-> FALSE, textures |-> << >>, depth_textures |-> << >>,
     displacement_scale |-> 0, undone |-> << >>, cards |-> << >>,
     output_path |-> << >>, aspect_ratio |-> << >>, repeated |-> FALSE,
     frames |-> 0, click |-> NoClick, positive_points |-> << >>,
     negative_points |-> << >>]

(* state.to_file(filename) *)
SaveDefaults == {}
(* state.to_file(filename, save_image_slices=..., save_depth_map=False,
   save_input_image=False) *)
SaveOnly(slices) ==
    {<<"save_image_slices", slices>>, <<"save_depth_map", FALSE>>,
     <<"save_input_image", FALSE>>}

ToFile(kwargs) == [NoEffects EXCEPT !.from_cache = TRUE,
                                    !.to_file = <<kwargs>>]

(* AppState.to_file writes every layer to its filename unless it is called
   with save_image_slices=False *)
WritesLayers(kwargs) == <<"save_image_slices", FALSE>> \notin kwargs

Names(names) == {names[i] : i \in 1..Len(names)}

WriteLayers(fs, slices, names) ==
    [f \in (DOMAIN fs) \cup Names(names) |->
        IF f \in Names(names)
        THEN slices[CHOOSE i \in 1..Len(names) : names[i] = f]
        ELSE fs[f]]

to_file(fs, kwargs, slices, names) ==
    IF WritesLayers(kwargs) THEN WriteLayers(fs, slices, names) ELSE fs

(* state.imgData of a new session: the input image, opaque everywhere *)
InputImage == [p \in Pixels |-> 255]

(* (width, height) of the input image; generate_image_slices gives every
   layer a buffer of that size *)
SourceSize == <<4, 2>>
SourceSizes(slices) == [i \in 1..Len(slices) |-> SourceSize]

(* generate_slices drops the filenames of the layers it replaces *)
RegeneratedFilenamesFirstKept(names) ==
    IF Len(names) = 0 THEN << >> ELSE <<names[1]>>
RegeneratedFilenames(names) == << >>

(* generate_slices(ignored_data, filename) *)
generate_slices ==
    /\ pending = {}
    /\ IF depthMapData = None
       THEN /\ call' = Called("generate_slices", "PreventUpdate", << >>, 0,
                              << >>, FALSE)
            /\ UNCHANGED <<image_slices, image_depths,
                           image_slices_filenames, positive_prompts,
                           negative_prompts, pending, fresh, files,
                           effects, canvas>>
       ELSE IF imgThresholds = None
       THEN /\ call' = Called("generate_slices", "TypeError", << >>, 0,
                              << >>, FALSE)
            /\ UNCHANGED <<image_slices, image_depths,
                           image_slices_filenames, positive_prompts,
                           negative_prompts, pending, fresh, files,
                           effects, canvas>>
       ELSE LET g == generate_image_slices(Val(depthMapData),
                                           Val(imgThresholds))
                names == RegeneratedFilenames(image_slices_filenames)
            IN /\ image_slices' = g.slices
               /\ image_depths' = g.depths
               /\ image_slices_filenames' = SavedFilenames(g.slices, names)
               /\ positive_prompts' = [i \in 1..Len(g.slices) |-> ""]
               /\ negative_prompts' = [i \in 1..Len(g.slices) |-> ""]
               /\ fresh' = TRUE
               /\ pending' = {"update_slices"}
               /\ files' = to_file(files, SaveDefaults, g.slices,
                                    SavedFilenames(g.slices, names))
               /\ image_sizes' = SourceSizes(g.slices)
               /\ imgData_size' = imgData_size
               /\ file_sizes' = to_file(file_sizes, SaveDefaults,
                                         SourceSizes(g.slices),
                                         SavedFilenames(g.slices, names))
               /\ effects' = ToFile(SaveDefaults)
               /\ call' = Called("generate_slices", "returned", << >>, 0,
                                 << >>, TRUE)
    /\ UNCHANGED <<num_slices, imgThresholds, depthMapData, slice_pixel,
                   slice_pixel_depth, slice_mask, selected_slice,
                   ui_num_slices, sliders, imgData, clipboard_image,
                   depth_files, upscaled_files, multipoint>>

(* `if state.selected_slice is not None: ... state.slice_pixel = None;
   state.slice_mask = None`: what the redraw leaves of a pending pixel or
   mask *)
PendingKept(pending_value) == pending_value
PendingAfterRefresh(pending_value) ==
    IF selected_slice # None THEN None ELSE pending_value

(* update_slices(ignored_data, filename): redraws the layers; with a layer
   selected the pending pixel and mask are cleared *)
update_slices ==
    /\ "update_slices" \in pending
    /\ pending' = pending \ {"update_slices"}
    /\ IF Len(image_slices) = 0
       THEN /\ call' = Called("update_slices", "returned", << >>, 0, << >>,
                              FALSE)
            /\ UNCHANGED <<slice_pixel, slice_mask>>
       ELSE IF depthMapData = None
       THEN /\ call' = Called("update_slices", "PreventUpdate", << >>, 0,
                              << >>, FALSE)
            /\ UNCHANGED <<slice_pixel, slice_mask>>
       ELSE IF \/ Len(image_slices) # Len(image_slices_filenames)
               \/ /\ selected_slice # None
                  /\ ~(Val(selected_slice) \in 1..Len(image_slices))
       THEN /\ call' = Called("update_slices", "AssertionError", << >>, 0,
                              << >>, FALSE)
            /\ UNCHANGED <<slice_pixel, slice_mask>>
       ELSE /\ call' = Called("update_slices", "returned", << >>, 0, << >>,
                              FALSE)
            /\ slice_pixel' = PendingAfterRefresh(slice_pixel)
            /\ slice_mask' = PendingAfterRefresh(slice_mask)
    /\ UNCHANGED <<num_slices, imgThresholds, depthMapData,
                   slice_pixel_depth, selected_slice, image_slices,
                   image_depths, image_slices_filenames, positive_prompts,
                   negative_prompts, ui_num_slices, sliders, fresh>>
    /\ UNCHANGED <<layerdisk, canvas, multipoint>>

(* The session right after update_input_image stored a new image: no depth
   map, no thresholds, no layers; its Outputs trigger update_slices,
   generate_depth_map_callback and update_thresholds. *)
Init ==
    /\ num_slices \in SliceCounts
    /\ ui_num_slices \in SliceCounts
    /\ imgThresholds = None
    /\ depthMapData = None
    /\ slice_pixel = None
    /\ slice_pixel_depth = -1
    /\ slice_mask = None
    /\ selected_slice = None
    /\ image_slices = << >>
    /\ image_depths = << >>
    /\ image_slices_filenames = << >>
    /\ positive_prompts = << >>
    /\ negative_prompts = << >>
    /\ sliders = << >>
    /\ pending = {"update_slices", "generate_depth_map_callback",
                  "update_thresholds"}
    /\ call = NoCall
    /\ fresh = FALSE
    /\ imgData = InputImage
    /\ clipboard_image = None
    /\ files = << >>
    /\ depth_files = {}
    /\ upscaled_files = {}
    /\ effects = NoEffects
    /\ image_sizes = SourceSizes(image_slices)
    /\ imgData_size = SourceSize
    /\ file_sizes = to_file(<< >>, SaveDefaults, image_sizes,
                            image_slices_filenames)
    /\ points_selected = << >>
    /\ multi_point_mode = FALSE
    /\ tiles = NoTiles

Next ==
    \/ UpdateThresholdsOnDepthMap
    \/ UpdateThresholdsOnSlider
    \/ update_thresholds_html
    \/ ThresholdSliderMoved
    \/ generate_depth_map_from_button
    \/ generate_depth_map_callback
    \/ update_depth_map_callback
    \/ ImageClicked
    \/ display_slice
    \/ generate_slices
    \/ update_slices

Spec == Init /\ [][Next]_vars

----------------------------------------------------------------------------
(* Direct calls of the threshold callbacks on a session prepared beforehand,
   as TestUpdateThresholds makes them: update_threshold_values with any
   proposed vector and slice count, then again with the vector it returned;
   update_thresholds with any slice count, then again with the same slice
   count and the same depth map, the sliders possibly moved in between. *)

CallSlices == 2..MaxCallSlices

StoredValues == (SliderValues \cup DepthLevels) \ {0, MaxDepth}

(* 0 = t0 < t1 < ... < tm = 255; without interior values it is the list
   update_thresholds stores for two slices when there is no depth map *)
ThresholdSets ==
    {<<0>> \o s \o <<MaxDepth>> :
        s \in {x \in SeqsOf(StoredValues, 0, MaxCallSlices - 1) :
                  StrictlyIncreasing(x)}}

EmptyMask == [p \in Pixels |-> 0]

(* The session has no thresholds yet, or has thresholds and no pending
   selection, or has thresholds, a depth map and a clicked pixel whose
   pending mask is the clicked band or was emptied by ctrl-clicks. *)
InitCall ==
    /\ \/ /\ imgThresholds = None
          /\ num_slices \in CallSlices
          /\ depthMapData \in {None, Some(NearFar)}
          /\ slice_pixel = None
          /\ slice_pixel_depth = -1
          /\ slice_mask = None
       \/ /\ imgThresholds \in {Some(t) : t \in ThresholdSets}
          /\ num_slices = IF Len(Val(imgThresholds)) = 2 THEN 2
                          ELSE Len(Val(imgThresholds)) - 1
          /\ \/ /\ depthMapData \in {None, Some(NearFar)}
                /\ slice_pixel = None
                /\ slice_pixel_depth = -1
                /\ slice_mask = None
             \/ /\ depthMapData = Some(NearFar)
                /\ slice_pixel = Some(1)
                /\ slice_pixel_depth = 0
                /\ slice_mask \in
                      {depth_slice_from_pixel(depthMapData, imgThresholds,
                                              1).mask,
                       Some(EmptyMask)}
    /\ selected_slice = None
    /\ image_slices = << >>
    /\ image_depths = << >>
    /\ image_slices_filenames = << >>
    /\ positive_prompts = << >>
    /\ negative_prompts = << >>
    /\ ui_num_slices = num_slices
    /\ sliders = << >>
    /\ pending = {"test"}
    /\ call = NoCall
    /\ fresh = FALSE
    /\ imgData = InputImage
    /\ clipboard_image = None
    /\ files = << >>
    /\ depth_files = {}
    /\ upscaled_files = {}
    /\ effects = NoEffects
    /\ image_sizes = SourceSizes(image_slices)
    /\ imgData_size = SourceSize
    /\ file_sizes = to_file(<< >>, SaveDefaults, image_sizes,
                            image_slices_filenames)
    /\ points_selected = << >>
    /\ multi_point_mode = FALSE
    /\ tiles = NoTiles

FirstCall ==
    /\ pending = {"test"}
    /\ \E tv \in SeqsOf(SliderValues, 1, MaxCallSlices - 1), n \in CallSlices :
          update_threshold_values(tv, n, Some("teststate"))
    /\ pending' = {"values again"}
    /\ UNCHANGED <<ui_num_slices, sliders>>
    /\ UNCHANGED <<layerdisk, canvas, multipoint>>

SecondCall ==
    /\ pending = {"values again"}
    /\ call.signal = "returned"
    /\ update_threshold_values(call.ret, call.n, Some("teststate"))
    /\ pending' = {}
    /\ UNCHANGED <<ui_num_slices, sliders>>
    /\ UNCHANGED <<layerdisk, canvas, multipoint>>

FirstUpdate ==
    /\ pending = {"test"}
    /\ \E n \in CallSlices : update_thresholds(n, Some("teststate"))
    /\ pending' = {"thresholds again"}
    /\ UNCHANGED ui_num_slices
    /\ UNCHANGED <<layerdisk, canvas, multipoint>>

(* one slider value per interior threshold is proposed between the calls *)
SlidersBetween ==
    /\ pending = {"thresholds again"}
    /\ call.handler = "update_thresholds"
    /\ \E tv \in SeqsOf(SliderValues, num_slices - 1, num_slices - 1) :
          update_threshold_values(tv, num_slices, Some("teststate"))
    /\ UNCHANGED <<ui_num_slices, sliders, pending>>
    /\ UNCHANGED <<layerdisk, canvas, multipoint>>

SecondUpdate ==
    /\ pending = {"thresholds again"}
    /\ update_thresholds(num_slices, Some("teststate"))
    /\ pending' = {}
    /\ UNCHANGED ui_num_slices
    /\ UNCHANGED <<layerdisk, canvas, multipoint>>

NextCall ==
    \/ FirstCall
    \/ SecondCall
    \/ FirstUpdate
    \/ SlidersBetween
    \/ SecondUpdate

SpecCall == InitCall /\ [][NextCall]_vars

----------------------------------------------------------------------------
(* Properties of the threshold callbacks called directly (SpecCall). *)

Utv == call.handler = "update_threshold_values"
UtvReturned == Utv /\ call.signal = "returned"
First(s) == s[1]
Last(s) == s[Len(s)]

(* C1: for every proposed vector of values in 0..255 and every slice count
   >= 2, the vector update_threshold_values returns is strictly increasing,
   its first value is >= 1, its last value is <= 254, and it is as long as
   the proposed vector. *)
C1_RepairedVectorValid ==
    UtvReturned =>
        /\ StrictlyIncreasing(call.ret)
        /\ First(call.ret) >= 1
        /\ Last(call.ret) <= MaxDepth - 1
        /\ Len(call.ret) = Len(call.arg)

(* C4: a call whose proposed vector equals the stored interior thresholds
   signals PreventUpdate and leaves state.imgThresholds and the pending
   mask as they were; the second call, which is given the vector the first
   call returned, is such a call. *)
C4_SameVectorIsNoOp ==
    /\ (Utv /\ call.pre # None /\ call.arg = Interior(Val(call.pre))) =>
          /\ call.signal = "PreventUpdate"
          /\ imgThresholds = call.pre
          /\ slice_mask = call.pre_mask
    /\ (Utv /\ pending = {}) =>
          /\ call.signal = "PreventUpdate"
          /\ imgThresholds = call.pre
          /\ slice_mask = call.pre_mask

(* the repaired vector 252, 253, 254 was fed back while a mask is pending *)
C4_Witness ==
    /\ pending = {}
    /\ Utv
    /\ call.signal = "PreventUpdate"
    /\ call.arg = <<252, 253, 254>>
    /\ slice_mask # None

(* C6: the second of two update_thresholds calls with the same slice count
   and the same depth map, present or absent, signals PreventUpdate and
   leaves state.imgThresholds as it was, slider changes made between the
   calls included. *)
C6_SecondUpdateIsNoOp ==
    (call.handler = "update_thresholds" /\ pending = {}) =>
        /\ call.signal = "PreventUpdate"
        /\ imgThresholds = call.pre

(* C9: a proposed vector whose length is not num_slices - 1 is signalled as
   an error and state.imgThresholds is left as it was. *)
C9_LengthMismatchRejected ==
    (Utv /\ call.pre # None /\ Len(call.arg) # call.n - 1) =>
        /\ call.signal \notin {"returned", "PreventUpdate"}
        /\ imgThresholds = call.pre

(* C10: after a call that returned, the interior of state.imgThresholds is
   the returned vector and the first and the last stored boundary are the
   values they were before the call. *)
C10_OnlyInteriorReplaced ==
    (UtvReturned /\ call.pre # None) =>
        /\ Interior(Val(imgThresholds)) = call.ret
        /\ First(Val(imgThresholds)) = First(Val(call.pre))
        /\ Last(Val(imgThresholds)) = Last(Val(call.pre))

(* 0, 128, 255 with the proposal 0, 255 becomes 0, 1, 254, 255 *)
C10_Witness ==
    /\ UtvReturned
    /\ call.pre = Some(<<0, 128, 255>>)
    /\ call.arg = <<0, 255>>
    /\ imgThresholds = Some(<<0, 1, 254, 255>>)

----------------------------------------------------------------------------
(* Properties of the session in the browser (Spec). *)

(* C2: whenever state.imgThresholds is set it has state.num_slices + 1
   entries, starts at 0, ends at 255 and is strictly increasing. *)
C2_ThresholdSetInvariant ==
    imgThresholds # None =>
        /\ Len(Val(imgThresholds)) = num_slices + 1
        /\ First(Val(imgThresholds)) = 0
        /\ Last(Val(imgThresholds)) = MaxDepth
        /\ StrictlyIncreasing(Val(imgThresholds))

(* C3: when generate_slices has generated layers, there are as many layers
   as the configured slice count. *)
C3_LayerCountIsSliceCount ==
    (call.handler = "generate_slices" /\ call.signal = "returned") =>
        Len(image_slices) = num_slices

(* C5: when the repaired form of the proposed vector equals the stored
   interior thresholds, update_threshold_values signals PreventUpdate and
   leaves state.imgThresholds and the pending mask as they were, also when
   the proposed vector itself differs from the stored one. *)
C5_RepairedSameIsNoOp ==
    (/\ Utv
     /\ call.pre # None
     /\ ~RepairRaises(call.arg, call.n)
     /\ RepairThresholds(call.arg, call.n) = Interior(Val(call.pre))) =>
        /\ call.signal = "PreventUpdate"
        /\ imgThresholds = call.pre
        /\ slice_mask = call.pre_mask

(* C7: a generate_slices run whose image, depth map and thresholds are
   those of the previous run signals PreventUpdate: it neither replaces the
   layers, nor resets filenames and prompts, nor writes the session to
   disk. *)
C7_SecondGenerateIsNoOp ==
    (call.handler = "generate_slices" /\ call.repeat) =>
        /\ call.signal = "PreventUpdate"
        /\ ~call.to_file

(* C8: the thresholds update_thresholds stores when there is no depth map
   start at 0 and end at 255. *)
C8_DefaultsSpanDepthRange ==
    (/\ call.handler = "update_thresholds"
     /\ call.signal = "returned"
     /\ depthMapData = None) =>
        /\ First(Val(imgThresholds)) = 0
        /\ Last(Val(imgThresholds)) = MaxDepth

----------------------------------------------------------------------------
(* Layer files and their versions.  A filename is <<base, version>>:
   version 0 is the name without a suffix (image.png) and version v >= 2 is
   the name with the suffix _v<v> (image_v2.png, image_v3.png). *)

filename_add_version(f) == <<f[1], IF f[2] = 0 THEN 2 ELSE f[2] + 1>>

filename_previous_version(f) ==
    IF f[2] = 0 THEN None
    ELSE IF f[2] = 2 THEN Some(<<f[1], 0>>)
    ELSE Some(<<f[1], f[2] - 1>>)

UndoTargetBackOnly(index, forward) ==
    LET t == filename_previous_version(image_slices_filenames[index])
    IN IF t # None /\ Val(t) \in DOMAIN files THEN t ELSE None

(* The revision a step back (forward = FALSE) or forward leads to: the
   neighbouring version of the layer's filename, when its file is on
   disk. *)
UndoTarget(index, forward) ==
    LET f == image_slices_filenames[index]
        t == IF forward THEN Some(filename_add_version(f))
             ELSE filename_previous_version(f)
    IN IF t # None /\ Val(t) \in DOMAIN files THEN t ELSE None

(* AppState.can_undo(index, forward) *)
can_undo(index, forward) == UndoTarget(index, forward) # None

(* utils.blend_with_alpha(dst, src) and remove_mask_from_alpha(dst, mask),
   on the alpha plane *)
blend_with_alpha(dst, src) ==
    [p \in Pixels |-> IF dst[p] >= src[p] THEN dst[p] ELSE src[p]]
remove_mask_from_alpha(dst, mask) ==
    [p \in Pixels |-> IF dst[p] <= 255 - mask[p] THEN dst[p]
                      ELSE 255 - mask[p]]

RemoveAt(s, i) == SubSeq(s, 1, i - 1) \o SubSeq(s, i + 1, Len(s))

(* what the layer callbacks below leave alone *)
thresholdstate == <<num_slices, imgThresholds, depthMapData, ui_num_slices,
                    sliders>>
selection == <<slice_pixel, slice_pixel_depth, slice_mask>>
layerlists == <<image_slices, image_depths, image_slices_filenames,
                positive_prompts, negative_prompts>>

(* `image_filename = filename_add_version(state.image_slices_filenames[
   index]); state.image_slices_filenames[index] = image_filename` *)
VersionedEveryFilename(index) ==
    [i \in 1..Len(image_slices_filenames) |->
        filename_add_version(image_slices_filenames[i])]
VersionedFilename(index) ==
    [image_slices_filenames EXCEPT ![index] = filename_add_version(@)]

NothingDoneButSaved(handler, signal, index, from_cache) ==
    /\ call' = Called(handler, signal, << >>, index, << >>, TRUE)
    /\ effects' = ToFile(SaveDefaults)
    /\ UNCHANGED <<layerlists, canvas, selected_slice, files, imgData,
                   pending, fresh>>

(* a callback that ends before it touches the session *)
NothingDone(handler, signal, index, from_cache) ==
    /\ call' = Called(handler, signal, << >>, index, << >>, FALSE)
    /\ effects' = [NoEffects EXCEPT !.from_cache = from_cache]
    /\ UNCHANGED <<layerlists, canvas, selected_slice, files, imgData,
                   pending, fresh>>

(* a request that finds its guard unmet: `logs.append(log); return
   no_update, logs, no_update` *)
LoggedAndSaved(handler, log) ==
    /\ call' = Called(handler, "no_update", <<log>>, 0, << >>, TRUE)
    /\ effects' = ToFile(SaveDefaults)
    /\ UNCHANGED <<layerlists, canvas, selected_slice, files, imgData,
                   pending, fresh>>
OnlyLogged(handler, log) ==
    /\ call' = Called(handler, "no_update", <<log>>, 0, << >>, FALSE)
    /\ effects' = [NoEffects EXCEPT !.from_cache = TRUE]
    /\ UNCHANGED <<layerlists, canvas, selected_slice, files, imgData,
                   pending, fresh>>

(* The end of paste_clipboard_request, remove_mask_slice_request and
   add_mask_slice_request: the layer's pixels were changed in place, its
   filename moves to the next version and the session is saved with
   save_image_slices=True. *)
LayerEdited(handler, index, alpha) ==
    /\ image_slices' = [image_slices EXCEPT ![index] = alpha]
    /\ image_slices_filenames' = VersionedFilename(index)
    /\ files' = to_file(files, SaveOnly(TRUE), image_slices',
                        image_slices_filenames')
    /\ imgData_size' = imgData_size
    /\ file_sizes' = to_file(file_sizes, SaveOnly(TRUE), image_sizes,
                             image_slices_filenames')
    /\ effects' = ToFile(SaveOnly(TRUE))
    /\ pending' = {"update_slices"}
    /\ fresh' = FALSE
    /\ call' = Called(handler, "returned", << >>, index, << >>, TRUE)
    /\ UNCHANGED <<image_depths, positive_prompts, negative_prompts,
                   selected_slice, imgData, image_sizes>>

(* the image copy_to_clipboard takes the colours from:
   `state.slice_image_composed(state.selected_slice, grayscale=False)` when
   a layer is selected, else `state.imgData` *)
ColourSource ==
    IF selected_slice # None THEN "slice_image_composed" ELSE "imgData"

(* `image[:, :, 3] = state.slice_mask`: the mask has the size of the depth
   map, that of the input image, and is assigned to the alpha channel of an
   image of the size of the selected layer or of state.imgData; numpy
   raises ValueError when the two differ, and the layer list raises
   IndexError for a selection past its end *)
CopySignal ==
    IF selected_slice = None
    THEN IF imgData_size # SourceSize THEN "ValueError" ELSE "returned"
    ELSE IF Val(selected_slice) \notin 1..Len(image_slices) THEN "IndexError"
    ELSE IF image_sizes[Val(selected_slice)] # SourceSize THEN "ValueError"
    ELSE "returned"

(* copy_to_clipboard(n_clicks, filename, logs).  The call records how many
   of n_clicks and filename were given and, as its arguments, where the
   colours came from and the line added to the logs. *)
Given(x) == IF x = None THEN 0 ELSE 1

copy_to_clipboard(n_clicks, filename) ==
    /\ IF n_clicks = None \/ filename = None
       THEN /\ UNCHANGED clipboard_image
            /\ call' = Called("copy_to_clipboard", "PreventUpdate", << >>,
                              Given(n_clicks) + Given(filename), << >>,
                              FALSE)
            /\ effects' = NoEffects
       ELSE IF slice_mask = None
       THEN /\ UNCHANGED clipboard_image
            /\ call' = Called("copy_to_clipboard", "returned",
                              <<"", "No mask selected">>, 2, << >>, FALSE)
            /\ effects' = [NoEffects EXCEPT !.from_cache = TRUE]
       ELSE IF CopySignal # "returned"
       THEN /\ UNCHANGED clipboard_image
            /\ call' = Called("copy_to_clipboard", CopySignal, << >>, 2,
                              << >>, FALSE)
            /\ effects' = [NoEffects EXCEPT !.from_cache = TRUE]
       ELSE /\ clipboard_image' = slice_mask
            /\ call' = Called("copy_to_clipboard", "returned",
                              <<ColourSource, "Copied mask to clipboard">>,
                              2, << >>, FALSE)
            /\ effects' = [NoEffects EXCEPT !.from_cache = TRUE]
    /\ UNCHANGED <<thresholdstate, multipoint, selection, layerlists, canvas,
                   selected_slice,
                   files, imgData, pending, fresh, depth_files,
                   upscaled_files>>

(* paste_clipboard_request(n_clicks, filename, logs) *)
paste_clipboard_request ==
    /\ IF clipboard_image = None
       THEN OnlyLogged("paste_clipboard_request", "Nothing in the clipboard")
       ELSE IF selected_slice = None
       THEN OnlyLogged("paste_clipboard_request", "No slice selected")
       ELSE LET index == Val(selected_slice)
            IN LayerEdited("paste_clipboard_request", index,
                           blend_with_alpha(image_slices[index],
                                            Val(clipboard_image)))
    /\ UNCHANGED <<thresholdstate, multipoint, selection, clipboard_image,
                   depth_files, upscaled_files>>

(* remove_mask_slice_request(n_clicks, filename, logs) *)
remove_mask_slice_request ==
    /\ IF slice_mask = None
       THEN OnlyLogged("remove_mask_slice_request", "No mask selected")
       ELSE IF selected_slice = None
       THEN OnlyLogged("remove_mask_slice_request", "No slice selected")
       ELSE LET index == Val(selected_slice)
            IN LayerEdited("remove_mask_slice_request", index,
                           remove_mask_from_alpha(image_slices[index],
                                                  Val(slice_mask)))
    /\ UNCHANGED <<thresholdstate, multipoint, selection, clipboard_image,
                   depth_files, upscaled_files>>

(* add_mask_slice_request(n_clicks, filename, logs) *)
add_mask_slice_request ==
    /\ IF slice_mask = None
       THEN OnlyLogged("add_mask_slice_request", "No mask selected")
       ELSE IF selected_slice = None
       THEN OnlyLogged("add_mask_slice_request", "No slice selected")
       ELSE LET index == Val(selected_slice)
            IN LayerEdited("add_mask_slice_request", index,
                           blend_with_alpha(image_slices[index],
                                            Val(slice_mask)))
    /\ UNCHANGED <<thresholdstate, multipoint, selection, clipboard_image,
                   depth_files, upscaled_files>>

(* the image slice_upload composes: every further layer blended over the
   first one *)
RECURSIVE Composed(_, _)
Composed(slices, k) ==
    IF k = 1 THEN slices[1]
    ELSE blend_with_alpha(Composed(slices, k - 1), slices[k])

(* The size of the buffer slice_upload stores for an upload of the size
   `size` on a layer of the size `layer`: an upload whose width / height is
   not the layer's is resized to (int(aspect_ratio * height), height), with
   the upload's own height; any other upload is stored as it is. *)
SameAspectRatio(layer, size) == size[1] * layer[2] = layer[1] * size[2]
UploadedSize(layer, size) ==
    IF ~SameAspectRatio(layer, size)
    THEN <<(layer[1] * size[2]) \div layer[2], size[2]>>
    ELSE size

(* slice_upload(contents, filename, logs), triggered by the upload of
   `content` (its alpha plane and its size) on the layer `index` *)
slice_upload(index, content, filename) ==
    /\ IF filename = None
       THEN NothingDone("slice_upload", "PreventUpdate", index, FALSE)
       ELSE IF Len(image_slices) = 0 \/ content = None
       THEN NothingDone("slice_upload", "PreventUpdate", index, TRUE)
       ELSE /\ image_slices' =
                  [image_slices EXCEPT ![index] = Val(content).alpha]
            /\ image_sizes' =
                  [image_sizes EXCEPT
                      ![index] = UploadedSize(@, Val(content).size)]
            /\ image_slices_filenames' = VersionedFilename(index)
            /\ imgData' = Composed(image_slices', Len(image_slices'))
            /\ files' = to_file(files, SaveDefaults, image_slices',
                                image_slices_filenames')
            /\ imgData_size' = image_sizes'[1]
            /\ file_sizes' = to_file(file_sizes, SaveDefaults, image_sizes',
                                     image_slices_filenames')
            /\ effects' = ToFile(SaveDefaults)
            /\ pending' = {"update_slices"}
            /\ fresh' = FALSE
            /\ call' = Called("slice_upload", "returned",
                              <<Val(content).alpha>>, index, << >>, TRUE)
            /\ UNCHANGED <<image_depths, positive_prompts, negative_prompts,
                           selected_slice>>
    /\ UNCHANGED <<thresholdstate, multipoint, selection, clipboard_image,
                   depth_files, upscaled_files>>

UndoRefusedAfterSave(index, forward) ==
    /\ call' = Called("undo_slice", "PreventUpdate",
                      IF forward THEN <<1>> ELSE <<0>>, index, << >>, TRUE)
    /\ effects' = ToFile(SaveOnly(FALSE))
    /\ UNCHANGED <<layerlists, canvas, selected_slice, files, imgData,
                   pending, fresh>>

(* `if not state.undo(index, forward=forward): raise PreventUpdate()` *)
UndoRefused(index, forward) ==
    /\ call' = Called("undo_slice", "PreventUpdate",
                      IF forward THEN <<1>> ELSE <<0>>, index, << >>, FALSE)
    /\ effects' = [NoEffects EXCEPT !.from_cache = TRUE]
    /\ UNCHANGED <<layerlists, canvas, selected_slice, files, imgData,
                   pending, fresh>>

(* AppState.undo(index, forward) as undo_slice uses it, and the rest of
   undo_slice(n_clicks_backwards, n_clicks_forwards, filename): a step that
   is not available ends in PreventUpdate, a step taken makes the target
   revision the layer's file and pixels, and only the json is saved. *)
undo_slice(index, forward) ==
    /\ IF ~can_undo(index, forward)
       THEN UndoRefused(index, forward)
       ELSE LET t == Val(UndoTarget(index, forward))
            IN /\ image_slices_filenames' =
                     [image_slices_filenames EXCEPT ![index] = t]
               /\ image_slices' = [image_slices EXCEPT ![index] = files[t]]
               /\ image_sizes' =
                     [image_sizes EXCEPT ![index] = file_sizes[t]]
               /\ files' = to_file(files, SaveOnly(FALSE), image_slices',
                                   image_slices_filenames')
               /\ UNCHANGED <<file_sizes, imgData_size>>
               /\ effects' =
                     [ToFile(SaveOnly(FALSE)) EXCEPT
                         !.undone = <<[index |-> index, forward |-> forward,
                                       filenames |-> image_slices_filenames,
                                       slices |-> image_slices]>>]
               /\ pending' = {"update_slices"}
               /\ fresh' = FALSE
               /\ call' = Called("undo_slice", "returned",
                                 IF forward THEN <<1>> ELSE <<0>>, index,
                                 << >>, TRUE)
               /\ UNCHANGED <<image_depths, positive_prompts,
                              negative_prompts, selected_slice, imgData>>
    /\ UNCHANGED <<thresholdstate, multipoint, selection, clipboard_image,
                   depth_files, upscaled_files>>

(* delete_slice_request(n_clicks, filename, logs): AppState.delete_slice
   takes the selected layer out of the layer lists and clears the
   selection; the layer's files stay on disk.  A selection left over from
   before the layers were generated again may be past the end of the
   lists. *)
delete_slice_request ==
    /\ IF selected_slice = None
       THEN OnlyLogged("delete_slice_request", "No slice selected")
       ELSE IF Val(selected_slice) \notin 1..Len(image_slices)
       THEN NothingDone("delete_slice_request", "IndexError",
                        Val(selected_slice), TRUE)
       ELSE LET index == Val(selected_slice)
            IN /\ image_slices' = RemoveAt(image_slices, index)
               /\ image_depths' = RemoveAt(image_depths, index)
               /\ image_slices_filenames' =
                     RemoveAt(image_slices_filenames, index)
               /\ positive_prompts' = RemoveAt(positive_prompts, index)
               /\ negative_prompts' = RemoveAt(negative_prompts, index)
               /\ selected_slice' = None
               /\ image_sizes' = RemoveAt(image_sizes, index)
               /\ files' = to_file(files, SaveOnly(FALSE), image_slices',
                                   image_slices_filenames')
               /\ UNCHANGED <<file_sizes, imgData_size>>
               /\ effects' = ToFile(SaveOnly(FALSE))
               /\ pending' = {"update_slices"}
               /\ fresh' = FALSE
               /\ call' = Called("delete_slice_request", "returned", << >>,
                                 index, << >>, TRUE)
               /\ UNCHANGED imgData
    /\ UNCHANGED <<thresholdstate, multipoint, selection, clipboard_image,
                   depth_files, upscaled_files>>

(* The depth-texture loop of export_state_as_gltf from layer i on: a depth
   map is generated, postprocessed and saved for a layer whose depth file
   (state.depth_filename(i), named after the layer's file) is not on disk.
   df: the depth files on disk so far; gen: the layers generated so far. *)
RECURSIVE DepthLoopEveryLayer(_, _, _)
DepthLoopEveryLayer(i, df, gen) ==
    IF i > Len(image_slices) THEN [depth_files |-> df, generated |-> gen]
    ELSE DepthLoopEveryLayer(i + 1, df \cup {image_slices_filenames[i]},
                             Append(gen, i))
RECURSIVE DepthLoop(_, _, _)
DepthLoop(i, df, gen) ==
    IF i > Len(image_slices) THEN [depth_files |-> df, generated |-> gen]
    ELSE IF image_slices_filenames[i] \in df
    THEN DepthLoop(i + 1, df, gen)
    ELSE DepthLoop(i + 1, df \cup {image_slices_filenames[i]},
                   Append(gen, i))

(* the texture of layer i: state.upscaled_filename(i) when that file is on
   disk, else the layer's filename *)
OriginalTextureOf(i) ==
    [file |-> image_slices_filenames[i], upscaled |-> FALSE]
TextureOf(i) ==
    [file |-> image_slices_filenames[i],
     upscaled |-> image_slices_filenames[i] \in upscaled_files]

(* `if displacement_scale > 0:` *)
DisplacementAsked(displacement_scale) == displacement_scale >= 0
DisplacementWanted(displacement_scale) == displacement_scale > 0

(* setup_camera_and_cards(image_slices, image_depths, camera_distance,
   max_distance, focal_length): the distance of every layer's card.  The
   depths are mapped linearly from [min depth, max depth] onto
   [camera_distance, max_distance]; when all depths are equal every card is
   placed at camera_distance. *)
MinOf(s) == CHOOSE x \in Names(s) : \A y \in Names(s) : x <= y
MaxOf(s) == CHOOSE x \in Names(s) : \A y \in Names(s) : y <= x
CardDistancesSpread(depths, camera_distance, max_distance) ==
    [i \in 1..Len(depths) |->
        camera_distance
        + ((i - 1) * (max_distance - camera_distance)) \div Len(depths)]
CardDistances(depths, camera_distance, max_distance) ==
    [i \in 1..Len(depths) |->
        IF MinOf(depths) = MaxOf(depths) THEN camera_distance
        ELSE camera_distance
             + ((depths[i] - MinOf(depths)) * (max_distance - camera_distance))
               \div (MaxOf(depths) - MinOf(depths))]

(* the principal point of the camera matrix is the centre of the layers'
   pixel grid: camera_matrix[0, 2] / camera_matrix[1, 2] is width / height,
   kept as the pair *)
AspectRatio(sizes) == IF Len(sizes) = 0 THEN << >> ELSE sizes[1]

(* camera_distance and max_distance of the export *)
CameraDistance == 10
MaxDistance == 100

(* depth_filenames: `depth_filenames.append(depth_filename)` for every
   layer when displacement is wanted, whether its depth map was generated
   in this call or found on disk *)
DepthFilenamesOfGenerated(displacement_scale, generated) ==
    [k \in 1..Len(generated) |-> image_slices_filenames[generated[k]]]
DepthFilenames(displacement_scale, generated) ==
    IF DisplacementWanted(displacement_scale)
    THEN [i \in 1..Len(image_slices) |-> image_slices_filenames[i]]
    ELSE << >>

(* `output_path = Path(filename) / state.MODEL_FILE` *)
OutputPath(filename) == <<filename, "MODEL_FILE">>

(* export_state_as_gltf(state, filename, camera_distance, max_distance,
   focal_length, displacement_scale, modelname, support_dof); export_gltf
   returns the path it wrote, and that path is returned.  repeated: the
   call before this one was the same call. *)
export_state_as_gltf(displacement_scale) ==
    LET loop == IF DisplacementWanted(displacement_scale)
                THEN DepthLoop(1, depth_files, << >>)
                ELSE [depth_files |-> depth_files, generated |-> << >>]
    IN /\ depth_files' = loop.depth_files
       /\ effects' =
             [NoEffects EXCEPT
                 !.from_cache = TRUE,
                 !.generate_depth_map = loop.generated,
                 !.postprocess_depth_map = loop.generated,
                 !.saved_depth =
                     [k \in 1..Len(loop.generated) |->
                         image_slices_filenames[loop.generated[k]]],
                 !.exported = TRUE,
                 !.textures =
                     [i \in 1..Len(image_slices_filenames) |-> TextureOf(i)],
                 !.depth_textures =
                     DepthFilenames(displacement_scale, loop.generated),
                 !.displacement_scale = displacement_scale,
                 !.cards = CardDistances(image_depths, CameraDistance,
                                         MaxDistance),
                 !.aspect_ratio = AspectRatio(image_sizes),
                 !.output_path = OutputPath(Filename),
                 !.repeated = /\ call.handler = "export_state_as_gltf"
                              /\ call.n = displacement_scale]
       /\ call' = Called("export_state_as_gltf", "returned", << >>,
                         displacement_scale, << >>, FALSE)
       /\ UNCHANGED <<thresholdstate, multipoint, selection, layerlists, canvas,
                   selected_slice,
                      files, imgData, clipboard_image, upscaled_files,
                      pending, fresh>>

(* export_animation(n_clicks, filename, num_frames, camera_distance,
   max_distance, focal_length, logs): the cards are set up and
   render_image_sequence is called for num_frames frames, whatever the
   number of layers; frames: the frames it was asked to write. *)
export_animation(n_clicks, filename, num_frames) ==
    /\ IF n_clicks = None \/ filename = None
       THEN /\ call' = Called("export_animation", "PreventUpdate", << >>,
                              num_frames, << >>, FALSE)
            /\ effects' = NoEffects
       ELSE /\ call' = Called("export_animation", "returned", << >>,
                              num_frames, << >>, FALSE)
            /\ effects' =
                  [NoEffects EXCEPT
                      !.from_cache = TRUE,
                      !.cards = CardDistances(image_depths, CameraDistance,
                                              MaxDistance),
                      !.frames = num_frames]
    /\ UNCHANGED <<thresholdstate, multipoint, selection, layerlists, canvas,
                   selected_slice, files, imgData, clipboard_image,
                   depth_files, upscaled_files, pending, fresh>>

(* restore_state_slices(value, filename): the layers of a restored session
   are shown again, when there are any *)
restore_state_slices(filename) ==
    /\ IF filename = None
       THEN NothingDone("restore_state_slices", "PreventUpdate", 0, FALSE)
       ELSE IF Len(image_slices) = 0
       THEN NothingDone("restore_state_slices", "PreventUpdate", 0, TRUE)
       ELSE /\ pending' = {"update_slices"}
            /\ call' = Called("restore_state_slices", "returned", << >>, 0,
                              << >>, FALSE)
            /\ effects' = [NoEffects EXCEPT !.from_cache = TRUE]
            /\ UNCHANGED <<layerlists, canvas, selected_slice, files,
                           imgData, fresh>>
    /\ UNCHANGED <<thresholdstate, multipoint, selection, clipboard_image,
                   depth_files, upscaled_files>>

(* upscale_texture(n_clicks, filename, ...): state.upscale_slices() writes
   the upscaled file of every layer *)
upscale_texture ==
    /\ upscaled_files' = upscaled_files \cup Names(image_slices_filenames)
    /\ call' = Called("upscale_texture", "returned", << >>, 0, << >>, FALSE)
    /\ effects' = [NoEffects EXCEPT !.from_cache = TRUE]
    /\ UNCHANGED <<thresholdstate, multipoint, selection, layerlists, canvas,
                   selected_slice,
                   files, imgData, clipboard_image, depth_files, pending,
                   fresh>>

----------------------------------------------------------------------------
(* Layers created by hand and depths changed by hand.  AppState.add_slice,
   change_slice_depth and balance_slices_depths keep the layers in the order
   of their depths: a layer goes behind the layers that are not deeper. *)

InsertIndexAtEnd(depths, depth) == Len(depths) + 1
InsertIndex(depths, depth) ==
    1 + Cardinality({i \in 1..Len(depths) : depths[i] <= depth})

InsertAt(s, i, v) == SubSeq(s, 1, i - 1) \o <<v>> \o SubSeq(s, i, Len(s))

Moved(s, index, new_index) == InsertAt(RemoveAt(s, index), new_index, s[index])

(* the file a layer added by hand is saved to: the first base name that is
   neither on disk nor the name of a layer *)
NewFilename ==
    LET used == {f[1] : f \in (DOMAIN files) \cup Names(image_slices_filenames)}
    IN <<CHOOSE k \in 1..(Cardinality(used) + 1) :
            k \notin used /\ \A j \in 1..(k - 1) : j \in used, 0>>

(* `depth = 127`, the depth of a layer created without a mask *)
EmptySliceDepth == 127
Transparent == [p \in Pixels |-> 0]

(* `state.selected_slice = state.add_slice(image, depth)` *)
SelectionUntouched(index) == selected_slice
SelectedAfterCreate(index) == Some(index)

(* create_single_slice_request(n_clicks, filename, logs).  Its branch
   `if state.imgData is None` is never taken here: a session that has a
   filename has its input image. *)
create_single_slice_request(n_clicks, filename) ==
    /\ IF n_clicks = None \/ filename = None
       THEN NothingDone("create_single_slice_request", "PreventUpdate", 0,
                        FALSE)
       ELSE LET image == IF slice_mask = None THEN Transparent
                         ELSE Val(slice_mask)
                depth == IF slice_mask = None THEN EmptySliceDepth
                         ELSE slice_pixel_depth
                index == InsertIndex(image_depths, depth)
            IN /\ image_slices' = InsertAt(image_slices, index, image)
               /\ image_depths' = InsertAt(image_depths, index, depth)
               /\ image_slices_filenames' =
                     InsertAt(image_slices_filenames, index, NewFilename)
               /\ positive_prompts' = InsertAt(positive_prompts, index, "")
               /\ negative_prompts' = InsertAt(negative_prompts, index, "")
               /\ image_sizes' = InsertAt(image_sizes, index, SourceSize)
               /\ selected_slice' = SelectedAfterCreate(index)
               /\ files' = to_file(files, SaveDefaults, image_slices',
                                   image_slices_filenames')
               /\ imgData_size' = imgData_size
               /\ file_sizes' = to_file(file_sizes, SaveDefaults,
                                        image_sizes', image_slices_filenames')
               /\ effects' = ToFile(SaveDefaults)
               /\ pending' = {"update_slices"}
               /\ fresh' = FALSE
               /\ call' = Called("create_single_slice_request", "returned",
                                 << >>, index, << >>, TRUE)
               /\ UNCHANGED imgData
    /\ UNCHANGED <<thresholdstate, multipoint, selection, clipboard_image,
                   depth_files, upscaled_files>>

(* AppState.balance_slices_depths(): the depths spread evenly over
   0..255, in layer order *)
Balanced(n) ==
    [i \in 1..n |-> IF n = 1 THEN 0 ELSE ((i - 1) * MaxDepth) \div (n - 1)]

(* balance_slices_request(n_clicks, filename, logs) *)
balance_slices_request(n_clicks, filename) ==
    /\ IF n_clicks = None \/ filename = None
       THEN NothingDone("balance_slices_request", "PreventUpdate", 0, FALSE)
       ELSE IF Len(image_depths) = 0
       THEN NothingDone("balance_slices_request", "PreventUpdate", 0, TRUE)
       ELSE /\ image_depths' = Balanced(Len(image_depths))
            /\ files' = to_file(files, SaveOnly(FALSE), image_slices,
                                image_slices_filenames)
            /\ effects' = ToFile(SaveOnly(FALSE))
            /\ pending' = {"update_slices"}
            /\ fresh' = FALSE
            /\ call' = Called("balance_slices_request", "returned", << >>, 0,
                              << >>, TRUE)
            /\ UNCHANGED <<image_slices, image_slices_filenames,
                           positive_prompts, negative_prompts, canvas,
                           imgData>>
    /\ UNCHANGED <<thresholdstate, multipoint, selection, selected_slice,
                   clipboard_image, depth_files, upscaled_files>>

(* `if index != new_index: state.selected_slice = None` *)
SelectionKept(index, new_index) == selected_slice
SelectionAfterDepthChange(index, new_index) ==
    IF index # new_index THEN None ELSE selected_slice

(* record_depth_input(values, n_submits, filename), triggered by the depth
   input of the layer `index`: `value` is values[index] and `n_submit` is
   n_submits[index].  AppState.change_slice_depth gives the layer its new
   depth, moves it to its place among the depths and returns that place. *)
record_depth_input(index, value, n_submit, filename) ==
    /\ IF filename = None \/ n_submit = None
       THEN NothingDone("record_depth_input", "PreventUpdate", index, FALSE)
       ELSE LET new_index == InsertIndex(RemoveAt(image_depths, index), value)
            IN /\ image_slices' = Moved(image_slices, index, new_index)
               /\ image_depths' =
                     InsertAt(RemoveAt(image_depths, index), new_index, value)
               /\ image_slices_filenames' =
                     Moved(image_slices_filenames, index, new_index)
               /\ positive_prompts' = Moved(positive_prompts, index, new_index)
               /\ negative_prompts' = Moved(negative_prompts, index, new_index)
               /\ image_sizes' = Moved(image_sizes, index, new_index)
               /\ selected_slice' = SelectionAfterDepthChange(index, new_index)
               /\ files' = to_file(files, SaveOnly(FALSE), image_slices',
                                   image_slices_filenames')
               /\ effects' = ToFile(SaveOnly(FALSE))
               /\ pending' = {"update_slices"}
               /\ fresh' = FALSE
               /\ call' = Called("record_depth_input", "returned", <<value>>,
                                 index, <<new_index>>, TRUE)
               /\ UNCHANGED <<file_sizes, imgData, imgData_size>>
    /\ UNCHANGED <<thresholdstate, multipoint, selection, clipboard_image,
                   depth_files, upscaled_files>>

----------------------------------------------------------------------------
(* Sessions whose layers were generated, and what the user does with the
   layers.  SpecHistory: upload new pixels for a layer, undo, redo, select
   and delete.  SpecEdit: click the image for a mask, copy, paste, add or
   remove the mask, upload, select and delete.  SpecExport: upload, upscale
   and export. *)

DisplacementScales == 0..MaxDisplacement

(* the alpha planes a user uploads *)
Opaque == [p \in Pixels |-> 255]
FirstPixelCut == [p \in Pixels |-> IF p = 1 THEN 0 ELSE 255]
Uploads == {[alpha |-> a, size |-> SourceSize] : a \in {Opaque, FirstPixelCut}}

(* two layers generated from the depth map NearFar and saved *)
LayersGenerated ==
    /\ num_slices = 2
    /\ ui_num_slices = num_slices
    /\ depthMapData = Some(NearFar)
    /\ imgThresholds = Some(analyze_depth_histogram(NearFar, num_slices))
    /\ sliders = Interior(Val(imgThresholds))
    /\ slice_pixel = None
    /\ slice_pixel_depth = -1
    /\ slice_mask = None
    /\ selected_slice = None
    /\ LET g == generate_image_slices(NearFar, Val(imgThresholds))
       IN /\ image_slices = g.slices
          /\ image_depths = g.depths
          /\ image_slices_filenames = SavedFilenames(g.slices, << >>)
          /\ positive_prompts = [i \in 1..Len(g.slices) |-> ""]
          /\ negative_prompts = [i \in 1..Len(g.slices) |-> ""]
          /\ files = to_file(<< >>, SaveDefaults, g.slices,
                             SavedFilenames(g.slices, << >>))
    /\ pending = {}
    /\ call = NoCall
    /\ fresh = TRUE
    /\ imgData = InputImage
    /\ clipboard_image = None
    /\ depth_files = {}
    /\ upscaled_files = {}
    /\ effects = NoEffects
    /\ image_sizes = SourceSizes(image_slices)
    /\ imgData_size = SourceSize
    /\ file_sizes = to_file(<< >>, SaveDefaults, image_sizes,
                            image_slices_filenames)
    /\ points_selected = << >>
    /\ multi_point_mode = FALSE

InitLayers == LayersGenerated /\ tiles = NoTiles

(* the version a pixel-mutating edit of the layer would create is within
   the versions followed (a request that only logs creates none): up to MaxVersion where revisions are walked, one
   less where the edits or the exports are varied *)
CanEdit(index) == image_slices_filenames[index][2] < MaxVersion
CanEditOnce(index) == image_slices_filenames[index][2] < MaxVersion - 1

RevisionUploaded ==
    /\ pending = {}
    /\ \E index \in 1..Len(image_slices), content \in Uploads :
          /\ CanEdit(index)
          /\ slice_upload(index, Some(content), Filename)

UndoClicked ==
    /\ pending = {}
    /\ \E index \in 1..Len(image_slices), forward \in BOOLEAN :
          undo_slice(index, forward)

DeleteClicked == pending = {} /\ delete_slice_request

NextHistory ==
    \/ display_slice
    \/ update_slices
    \/ RevisionUploaded
    \/ UndoClicked
    \/ DeleteClicked

SpecHistory == InitLayers /\ [][NextHistory]_vars

(* a plain click on the image: the clicked band becomes the pending mask *)
PixelClicked ==
    /\ pending = {}
    /\ \E p \in Pixels : click_event(p, FALSE, FALSE)
    /\ UNCHANGED <<ui_num_slices, sliders, pending>>
    /\ UNCHANGED <<layerdisk, canvas, multipoint>>

CopyClicked == pending = {} /\ copy_to_clipboard(Some(1), Filename)

(* the callback run with and without its button count and its session *)
CopyTriggered ==
    /\ pending = {}
    /\ \E n_clicks \in {None, Some(1)}, filename \in {None, Filename} :
          copy_to_clipboard(n_clicks, filename)

PasteClicked ==
    /\ pending = {}
    /\ (clipboard_image # None /\ selected_slice # None)
          => CanEditOnce(Val(selected_slice))
    /\ paste_clipboard_request

RemoveMaskClicked ==
    /\ pending = {}
    /\ (slice_mask # None /\ selected_slice # None)
          => CanEditOnce(Val(selected_slice))
    /\ remove_mask_slice_request

AddMaskClicked ==
    /\ pending = {}
    /\ (slice_mask # None /\ selected_slice # None)
          => CanEditOnce(Val(selected_slice))
    /\ add_mask_slice_request

SliceUploaded ==
    /\ pending = {}
    /\ \E index \in 1..Len(image_slices), content \in Uploads :
          /\ CanEditOnce(index)
          /\ slice_upload(index, Some(content), Filename)

(* the callback run without a session, without content for the triggering
   layer, or without layers *)
SliceUploadTriggered ==
    /\ pending = {}
    /\ \/ slice_upload(1, None, None)
       \/ \E index \in 1..Len(image_slices) :
             slice_upload(index, None, Filename)
       \/ Len(image_slices) = 0 /\ slice_upload(1, None, Filename)

NextEdit ==
    \/ display_slice
    \/ update_slices
    \/ PixelClicked
    \/ CopyClicked
    \/ PasteClicked
    \/ RemoveMaskClicked
    \/ AddMaskClicked
    \/ SliceUploaded
    \/ SliceUploadTriggered
    \/ DeleteClicked

SpecEdit == InitLayers /\ [][NextEdit]_vars

GltfCreateClicked ==
    /\ pending = {}
    /\ \E displacement_scale \in DisplacementScales :
          export_state_as_gltf(displacement_scale)

UpscaleClicked == pending = {} /\ upscale_texture


(* one layer is created by hand: its file is the first one after the files
   of the generated layers *)
CreateSliceClicked ==
    /\ pending = {}
    /\ NewFilename[1] <= num_slices + 1
    /\ \E filename \in {None, Filename} :
          create_single_slice_request(Some(1), filename)

BalanceClicked ==
    /\ pending = {}
    /\ \E filename \in {None, Filename} :
          balance_slices_request(Some(1), filename)

DepthSubmitted ==
    /\ pending = {}
    /\ \E index \in 1..Len(image_slices), value \in DepthLevels,
          n_submit \in {None, Some(1)} :
             record_depth_input(index, value, n_submit, Filename)

NextDepth ==
    \/ display_slice
    \/ update_slices
    \/ PixelClicked
    \/ generate_slices
    \/ CreateSliceClicked
    \/ DepthSubmitted
    \/ BalanceClicked
    \/ DeleteClicked

SpecDepth == InitLayers /\ [][NextDepth]_vars

(* a layer is given the depth of another layer, before anything was
   uploaded, upscaled or exported *)
DepthEqualised ==
    /\ pending = {}
    /\ depth_files = {} /\ upscaled_files = {}
    /\ \A i \in 1..Len(image_slices) : image_slices_filenames[i][2] = 0
    /\ \E index \in 1..Len(image_slices), other \in 1..Len(image_slices) :
          /\ image_depths[index] # image_depths[other]
          /\ record_depth_input(index, image_depths[other], Some(1),
                                Filename)

(* exports of a session whose layers were given other depths and are
   edited and upscaled in between *)
NextExport ==
    \/ update_slices
    \/ SliceUploaded
    \/ UpscaleClicked
    \/ DepthEqualised
    \/ GltfCreateClicked

SpecExport == InitLayers /\ [][NextExport]_vars

(* a session whose layers are deleted one by one, and the callbacks that
   read the layer list *)
AnimationClicked ==
    /\ pending = {}
    /\ \E n_clicks \in {None, Some(1)}, num_frames \in 1..2 :
          export_animation(n_clicks, Filename, num_frames)

RestoreTriggered ==
    /\ pending = {}
    /\ \E filename \in {None, Filename} : restore_state_slices(filename)

NextEmpty ==
    \/ display_slice
    \/ update_slices
    \/ DeleteClicked
    \/ BalanceClicked
    \/ SliceUploadTriggered
    \/ RestoreTriggered
    \/ GltfCreateClicked
    \/ AnimationClicked

SpecEmpty == InitLayers /\ [][NextEmpty]_vars

(* a session with layers whose depth map is regenerated and whose slice
   count and thresholds are moved *)
NextRegen ==
    \/ generate_depth_map_from_button
    \/ generate_depth_map_callback
    \/ update_depth_map_callback
    \/ UpdateThresholdsOnDepthMap
    \/ UpdateThresholdsOnSlider
    \/ update_thresholds_html
    \/ ThresholdSliderMoved
    \/ display_slice
    \/ PixelClicked

SpecRegen == InitLayers /\ [][NextRegen]_vars

(* a session whose layer list is regenerated, grown, shrunk, overwritten
   by uploads and walked through its revisions *)
OpaqueUploaded ==
    /\ pending = {}
    /\ \E index \in 1..Len(image_slices) :
          /\ image_slices_filenames[index][2] = 0
          /\ slice_upload(index, Some([alpha |-> Opaque,
                                       size |-> SourceSize]), Filename)

NextLists ==
    \/ display_slice
    \/ update_slices
    \/ generate_slices
    \/ CreateSliceClicked
    \/ DeleteClicked
    \/ OpaqueUploaded
    \/ UndoClicked

SpecLists == InitLayers /\ [][NextLists]_vars

----------------------------------------------------------------------------
(* gltf_cli.py: the depth maps of a saved session, computed from the
   command line. *)

(* the pixels of a layer of a saved session: a strip one pixel longer than
   the images of the editing sessions, so that an opaque pixel can have an
   opaque neighbour on one side and a transparent one on the other *)
CliPixels == 1..(NumPixels + 1)

(* `cv2.erode(image_alpha, kernel, iterations=1)` with a 3x3 kernel: every
   pixel takes the smallest alpha of its neighbourhood; pixels outside the
   image do not count *)
Erode(image_alpha) ==
    [p \in CliPixels |->
        MinOf([q \in 1..3 |->
                  IF (p + q - 2) \in CliPixels THEN image_alpha[p + q - 2]
                  ELSE image_alpha[p]])]

(* the pixels `depth_map[image_alpha == 255]` selects after the erosion:
   image_alpha was reassigned to the eroded alpha *)
OpaqueAfterErosion(image_alpha) ==
    {p \in CliPixels : Erode(image_alpha)[p] = 255}

(* the pixels each postprocessed layer's black level is taken over *)
BlackLevelPixels(layers) ==
    [k \in 1..Len(layers) |-> OpaqueAfterErosion(image_slices[layers[k]])]

(* gltf_cli.postprocess_depth_map(depth_map, image_alpha):
   `np.quantile(depth_map[image_alpha == 255], 0.01)` and `int(...)` of it
   need at least one selected pixel.  Of an empty selection np.quantile
   raises IndexError or, depending on the numpy version, returns nan, of
   which int() raises ValueError. *)
PostprocessSignals(image_alpha) ==
    IF OpaqueAfterErosion(image_alpha) = {} THEN {"IndexError", "ValueError"}
    ELSE {"returned"}

(* the loop of compute_depth_map_for_slices from layer i on; generated: the
   layers whose depth map was generated; df: the depth files saved *)
RECURSIVE CliDepthLoop(_, _, _, _)
CliDepthLoop(i, df, gen, postprocess) ==
    IF i > Len(image_slices)
    THEN [depth_files |-> df, generated |-> gen, failed |-> {}]
    ELSE IF postprocess /\ OpaqueAfterErosion(image_slices[i]) = {}
    THEN [depth_files |-> df, generated |-> Append(gen, i),
          failed |-> {i}]
    ELSE CliDepthLoop(i + 1, df \cup {image_slices_filenames[i]},
                      Append(gen, i), postprocess)

(* compute_depth_map_for_slices(state, postprocess) *)
compute_depth_map_for_slices(postprocess) ==
    LET loop == CliDepthLoop(1, depth_files, << >>, postprocess)
        done == IF loop.failed = {} THEN loop.generated
                ELSE SubSeq(loop.generated, 1, Len(loop.generated) - 1)
    IN /\ depth_files' = loop.depth_files
       /\ \E signal \in IF loop.failed = {} THEN {"returned"}
                         ELSE PostprocessSignals(
                                  image_slices[Val(loop.failed)]) :
             call' = Called("compute_depth_map_for_slices", signal,
                            IF postprocess
                            THEN BlackLevelPixels(loop.generated) ELSE << >>,
                            IF loop.failed = {} THEN 0 ELSE Val(loop.failed),
                            << >>, FALSE)
       /\ effects' =
             [NoEffects EXCEPT
                 !.generate_depth_map = loop.generated,
                 !.postprocess_depth_map =
                     IF postprocess THEN loop.generated ELSE << >>,
                 !.saved_depth =
                     [k \in 1..Len(done) |-> image_slices_filenames[done[k]]]]
       /\ UNCHANGED <<thresholdstate, multipoint, selection, layerlists,
                      canvas, selected_slice, files, imgData,
                      clipboard_image, upscaled_files, pending, fresh>>

(* the alpha of a pixel: transparent, feathered or opaque *)
AlphaLevels == {0, 128, 255}

(* a saved session of one or two layers with any alpha planes *)
InitCli ==
    /\ num_slices = 2
    /\ ui_num_slices = num_slices
    /\ depthMapData = Some(NearFar)
    /\ imgThresholds = Some(analyze_depth_histogram(NearFar, num_slices))
    /\ sliders = Interior(Val(imgThresholds))
    /\ slice_pixel = None
    /\ slice_pixel_depth = -1
    /\ slice_mask = None
    /\ selected_slice = None
    /\ \E n \in 1..2 :
          /\ image_slices \in [1..n -> [CliPixels -> AlphaLevels]]
          /\ image_depths = Balanced(n)
    /\ image_slices_filenames = [i \in 1..Len(image_slices) |-> <<i, 0>>]
    /\ positive_prompts = [i \in 1..Len(image_slices) |-> ""]
    /\ negative_prompts = [i \in 1..Len(image_slices) |-> ""]
    /\ files = to_file(<< >>, SaveDefaults, image_slices,
                       image_slices_filenames)
    /\ pending = {}
    /\ call = NoCall
    /\ fresh = TRUE
    /\ imgData = InputImage
    /\ clipboard_image = None
    /\ depth_files = {}
    /\ upscaled_files = {}
    /\ effects = NoEffects
    /\ image_sizes = SourceSizes(image_slices)
    /\ imgData_size = SourceSize
    /\ file_sizes = to_file(<< >>, SaveDefaults, image_sizes,
                            image_slices_filenames)
    /\ points_selected = << >>
    /\ multi_point_mode = FALSE
    /\ tiles = NoTiles

NextCli ==
    \E postprocess \in BOOLEAN : compute_depth_map_for_slices(postprocess)

SpecCli == InitCli /\ [][NextCli]_vars

----------------------------------------------------------------------------
(* click_event with every trigger, event and mode. *)

(* `if e is None or rect_data is None or state.imgData is None`; a session
   that has a filename has its input image *)
EventMissingOnly(e, rect_data) == e = None
EventMissing(e, rect_data) == e = None \/ rect_data = None

(* `if ctrl_click: negative_points.append(point)` *)
IsNegativePointAlways(point) == TRUE
IsNegativePoint(point) == point[2]

(* the loop over state.points_selected from the point i on *)
RECURSIVE PartitionPoints(_, _, _, _)
PartitionPoints(points, i, positive, negative) ==
    IF i > Len(points)
    THEN [positive_points |-> positive, negative_points |-> negative]
    ELSE IF IsNegativePoint(points[i])
    THEN PartitionPoints(points, i + 1, positive,
                         Append(negative, points[i][1]))
    ELSE PartitionPoints(points, i + 1, Append(positive, points[i][1]),
                         negative)

(* the masks state.segmentation_model.mask_at_point_blended may return *)
SegmentMasks == {[q \in Pixels |-> 255],
                 [q \in Pixels |-> IF q = 1 THEN 0 ELSE 255]}

(* what a click_event that raised before its first assignment leaves *)
ClickRejected(signal, click, from_cache) ==
    /\ call' = Called("click_event", signal, << >>, 0, << >>, FALSE)
    /\ effects' = [NoEffects EXCEPT !.click = click,
                                   !.from_cache = from_cache]
    /\ UNCHANGED <<slice_pixel, slice_pixel_depth, slice_mask,
                   points_selected>>

(* the mask a segmentation result leaves pending: it replaces the pending
   mask, is added to it with shift, or taken out of it with ctrl *)
MaskAfter(new_mask, shiftClick, ctrlClick) ==
    IF slice_mask = None \/ ~(shiftClick \/ ctrlClick) THEN Some(new_mask)
    ELSE IF shiftClick THEN Some(MaskUnion(Val(slice_mask), new_mask))
    ELSE Some(MaskMinus(Val(slice_mask), new_mask))

(* click_event(n_clicks, n_events, e, rect_data, mode, filename, logs_data)
   triggered by t_id *)
click_event_triggered(t_id, e, rect_data, mode, filename) ==
    LET click == [t_id |-> t_id, event |-> e # None,
                  rect_data |-> rect_data # None, mode |-> mode,
                  filename |-> filename # None,
                  shiftClick |-> FALSE, ctrlClick |-> FALSE]
        \* shiftClick, ctrlClick = e["shiftKey"], e["ctrlKey"]
        keys == IF t_id = "el"
                THEN [click EXCEPT !.shiftClick = Val(e).shiftKey,
                                   !.ctrlClick = Val(e).ctrlKey]
                ELSE click
        clicked == [NoEffects EXCEPT !.click = keys, !.from_cache = TRUE]
    IN /\ IF filename = None
          THEN ClickRejected("PreventUpdate", click, FALSE)
          ELSE IF t_id = "el" /\ EventMissing(e, rect_data)
          THEN ClickRejected("PreventUpdate", click, TRUE)
          ELSE IF t_id \notin {"el", "SEG_MULTI_COMMIT"}
          THEN ClickRejected("ValueError", click, TRUE)
          ELSE IF mode # "segment"
          THEN IF t_id = "el"
               THEN /\ click_event(Val(e).pixel, Val(e).shiftKey,
                                   Val(e).ctrlKey)
                    /\ effects' = clicked
                    /\ UNCHANGED points_selected
               ELSE \* new_mask is not bound
                    ClickRejected("UnboundLocalError", click, TRUE)
          ELSE IF multi_point_mode
          THEN IF t_id = "el"
               THEN /\ slice_pixel' = Some(Val(e).pixel)
                    /\ slice_pixel_depth' =
                          depth_slice_from_pixel(depthMapData, imgThresholds,
                                                 Val(e).pixel).depth
                    /\ points_selected' =
                          Append(points_selected,
                                 <<Val(e).pixel, Val(e).ctrlKey>>)
                    /\ call' = Called("click_event", "returned", << >>, 0,
                                      << >>, FALSE)
                    /\ effects' = clicked
                    /\ UNCHANGED slice_mask
               ELSE LET parts == PartitionPoints(points_selected, 1, << >>,
                                                 << >>)
                    IN /\ \E new_mask \in SegmentMasks :
                             slice_mask' = MaskAfter(new_mask, FALSE, FALSE)
                       /\ call' = Called("click_event", "returned", << >>,
                                         0, << >>, FALSE)
                       /\ effects' =
                             [clicked EXCEPT
                                 !.positive_points = parts.positive_points,
                                 !.negative_points = parts.negative_points]
                       /\ UNCHANGED <<slice_pixel, slice_pixel_depth,
                                      points_selected>>
          ELSE IF t_id = "el"
               THEN /\ slice_pixel' = Some(Val(e).pixel)
                    /\ slice_pixel_depth' =
                          depth_slice_from_pixel(depthMapData, imgThresholds,
                                                 Val(e).pixel).depth
                    /\ \E new_mask \in SegmentMasks :
                          slice_mask' = MaskAfter(new_mask, Val(e).shiftKey,
                                                  Val(e).ctrlKey)
                    /\ call' = Called("click_event", "returned", << >>, 0,
                                      << >>, FALSE)
                    /\ effects' =
                          [clicked EXCEPT
                              !.positive_points = <<Val(e).pixel>>]
                    /\ UNCHANGED points_selected
               ELSE \* pixel_x is not bound
                    ClickRejected("UnboundLocalError", click, TRUE)
       /\ UNCHANGED <<num_slices, imgThresholds, depthMapData,
                      selected_slice, layerlists, fresh, ui_num_slices,
                      sliders, pending, imgData, clipboard_image, files,
                      depth_files, upscaled_files, canvas, multi_point_mode,
                      tiles>>

(* the events of the image's listener: clicks on the first and on the last
   pixel, with and without shift and ctrl *)
Events ==
    {[pixel |-> p, shiftKey |-> s, ctrlKey |-> c] :
        p \in {1, NumPixels}, s \in BOOLEAN, c \in BOOLEAN}

(* a session with layers, in multi-point mode or not *)
InitClick ==
    /\ num_slices = 2
    /\ ui_num_slices = num_slices
    /\ depthMapData = Some(NearFar)
    /\ imgThresholds = Some(analyze_depth_histogram(NearFar, num_slices))
    /\ sliders = Interior(Val(imgThresholds))
    /\ slice_pixel = None
    /\ slice_pixel_depth = -1
    /\ slice_mask = None
    /\ selected_slice = None
    /\ LET g == generate_image_slices(NearFar, Val(imgThresholds))
       IN /\ image_slices = g.slices
          /\ image_depths = g.depths
          /\ image_slices_filenames = SavedFilenames(g.slices, << >>)
          /\ positive_prompts = [i \in 1..Len(g.slices) |-> ""]
          /\ negative_prompts = [i \in 1..Len(g.slices) |-> ""]
          /\ files = to_file(<< >>, SaveDefaults, g.slices,
                             SavedFilenames(g.slices, << >>))
    /\ pending = {}
    /\ call = NoCall
    /\ fresh = TRUE
    /\ imgData = InputImage
    /\ clipboard_image = None
    /\ depth_files = {}
    /\ upscaled_files = {}
    /\ effects = NoEffects
    /\ image_sizes = SourceSizes(image_slices)
    /\ imgData_size = SourceSize
    /\ file_sizes = to_file(<< >>, SaveDefaults, image_sizes,
                            image_slices_filenames)
    /\ points_selected = << >>
    /\ multi_point_mode \in BOOLEAN
    /\ tiles = NoTiles

ClickTriggered ==
    /\ pending = {}
    /\ \E t_id \in {"el", "SEG_MULTI_COMMIT", "other"},
          e \in {None} \cup {Some(ev) : ev \in Events},
          rect_data \in {None, Some("rect")},
          mode \in {"depth", "segment"},
          filename \in {None, Filename} :
             /\ Len(points_selected) < MaxPoints
                \/ ~(t_id = "el" /\ mode = "segment" /\ multi_point_mode)
             /\ click_event_triggered(t_id, e, rect_data, mode, filename)

NextClick == ClickTriggered

SpecClick == InitClick /\ [][NextClick]_vars

(* uploads of the size of the layers, of twice that size, of another aspect
   ratio with the layers' height and of another aspect ratio and height *)
UploadSizes == {SourceSize, <<8, 4>>, <<6, 2>>, <<3, 3>>}
SizedUploads == {[alpha |-> Opaque, size |-> z] : z \in UploadSizes}

SizedSliceUploaded ==
    /\ pending = {}
    /\ \E index \in 1..Len(image_slices), content \in SizedUploads :
          /\ CanEdit(index)
          /\ slice_upload(index, Some(content), Filename)

NextUpload ==
    \/ update_slices
    \/ SizedSliceUploaded
    \/ UndoClicked

SpecUpload == InitLayers /\ [][NextUpload]_vars

(* masks copied to the clipboard in a session whose layers are replaced by
   uploads of any size *)
SliceUploadedOnce ==
    /\ pending = {}
    /\ \E index \in 1..Len(image_slices), content \in SizedUploads :
          /\ image_slices_filenames[index][2] = 0
          /\ slice_upload(index, Some(content), Filename)

NextCopy ==
    \/ update_slices
    \/ display_slice
    \/ PixelClicked
    \/ SliceUploadedOnce
    \/ CopyTriggered

SpecCopy == InitLayers /\ [][NextCopy]_vars

----------------------------------------------------------------------------
(* upscaler.py: upscale_image_tiled(image_path, tile_size, overlap) cuts
   the image into tiles and upscales them one by one.  Pixel coordinates
   are those of the code, from 0. *)

(* `step_size = tile_size - overlap` *)
StepSize(tile_size, overlap) == tile_size - overlap

(* `num_tiles_x = (width + step_size - 1) // step_size`, and the same for
   the height *)
NumTilesFloor(side, step_size) == side \div step_size
NumTiles(side, step_size) == (side + step_size - 1) \div step_size

Min(a, b) == IF a <= b THEN a ELSE b

(* the source rectangle (left, top, right, bottom) of the tile (x, y):
   `left = x * step_size; top = y * step_size; right = min(left +
   tile_size, width); bottom = min(top + tile_size, height)` *)
TileBox(t) ==
    LET step_size == StepSize(t.tile_size, t.overlap)
        left == t.x * step_size
        top == t.y * step_size
    IN <<left, top, Min(left + t.tile_size, t.width),
         Min(top + t.tile_size, t.height)>>

(* the calls of upscale_image_tiled followed, beside a session with
   layers: every image size and every tile_size > overlap >= 0 within the
   bounds *)
InitTiles ==
    /\ LayersGenerated
    /\ \E width \in 1..MaxSide, height \in 1..MaxSide,
          tile_size \in 1..MaxTileSize :
          \E overlap \in 0..(tile_size - 1) :
             tiles = [NoTiles EXCEPT !.width = width, !.height = height,
                                     !.tile_size = tile_size,
                                     !.overlap = overlap]

(* one pass of the body of `for y in range(num_tiles_y): for x in
   range(num_tiles_x):`, the tile (x, y) is cropped and upscaled *)
TileProcessed ==
    LET step_size == StepSize(tiles.tile_size, tiles.overlap)
        num_tiles_x == NumTiles(tiles.width, step_size)
        num_tiles_y == NumTiles(tiles.height, step_size)
    IN /\ ~tiles.returned
       /\ tiles.y < num_tiles_y
       /\ tiles.x < num_tiles_x
       /\ tiles' = [tiles EXCEPT
                       !.visited = Append(@, TileBox(tiles)),
                       !.x = IF tiles.x + 1 < num_tiles_x THEN tiles.x + 1
                             ELSE 0,
                       !.y = IF tiles.x + 1 < num_tiles_x THEN tiles.y
                             ELSE tiles.y + 1]
       /\ UNCHANGED <<session, ui_num_slices, sliders, pending, call, fresh,
                      layerdisk, canvas, points_selected, multi_point_mode>>

(* the loops are through: `return upscaled_image` *)
TilesReturned ==
    LET step_size == StepSize(tiles.tile_size, tiles.overlap)
    IN /\ ~tiles.returned
       /\ tiles.y >= NumTiles(tiles.height, step_size)
       /\ tiles' = [tiles EXCEPT !.returned = TRUE]
       /\ UNCHANGED <<session, ui_num_slices, sliders, pending, call, fresh,
                      layerdisk, canvas, points_selected, multi_point_mode>>

NextTiles == TileProcessed \/ TilesReturned

SpecTiles == InitTiles /\ [][NextTiles]_vars

----------------------------------------------------------------------------
(* The glTF export *)

Exported == call.handler = "export_state_as_gltf" /\ effects.exported

(* C11: an export with displacement_scale = 0 never calls
   generate_depth_map or postprocess_depth_map, saves no depth map and
   hands an empty list of depth textures to the exporter, whether or not
   depth files of the layers are on disk. *)
C11_NoDepthWorkWithoutDisplacement ==
    (Exported /\ effects.displacement_scale = 0) =>
        /\ effects.generate_depth_map = << >>
        /\ effects.postprocess_depth_map = << >>
        /\ effects.saved_depth = << >>
        /\ effects.depth_textures = << >>

(* an export without displacement of two layers, the depth file of one of
   them on disk and the other's not *)
C11_Witness ==
    /\ Exported
    /\ effects.displacement_scale = 0
    /\ Len(image_slices) = 2
    /\ image_slices_filenames[1] \notin depth_files
    /\ image_slices_filenames[2] \in depth_files

Times(s, i) == Cardinality({k \in 1..Len(s) : s[k] = i})

(* C12: an export with displacement_scale > 0 generates, postprocesses and
   saves a depth map exactly once for every layer whose depth file was not
   on disk and never for a layer whose depth file was, and the list of
   depth textures has one entry per layer, in layer order. *)
C12_DepthMapOncePerMissingFile ==
    [][(call'.handler = "export_state_as_gltf"
        /\ effects'.displacement_scale > 0) =>
          /\ \A i \in 1..Len(image_slices) :
                LET once == IF image_slices_filenames[i] \in depth_files
                            THEN 0 ELSE 1
                IN /\ Times(effects'.generate_depth_map, i) = once
                   /\ Times(effects'.postprocess_depth_map, i) = once
                   /\ Times(effects'.saved_depth,
                            image_slices_filenames[i]) = once
          /\ Len(effects'.generate_depth_map)
                = Len(effects'.saved_depth)
          /\ effects'.depth_textures =
                [i \in 1..Len(image_slices) |-> image_slices_filenames[i]]
          /\ depth_files' =
                depth_files \cup Names(image_slices_filenames)]_vars

(* an export with displacement that found the depth file of the second
   layer and generated the one of the first *)
C12_Witness ==
    /\ Exported
    /\ effects.displacement_scale > 0
    /\ Len(image_slices) = 2
    /\ effects.generate_depth_map = <<1>>
    /\ Len(effects.depth_textures) = 2

(* C13: the texture the exporter gets for a layer is the layer's upscaled
   file when that file is on disk and the layer's own file otherwise, one
   entry per layer in layer order, decided anew at every export. *)
C13_UpscaledTextureWhenOnDisk ==
    Exported =>
        /\ Len(effects.textures) = Len(image_slices_filenames)
        /\ \A i \in 1..Len(image_slices_filenames) :
              /\ effects.textures[i].file = image_slices_filenames[i]
              /\ effects.textures[i].upscaled
                    <=> image_slices_filenames[i] \in upscaled_files

(* an export of two layers, the first without and the second with an
   upscaled file *)
C13_Witness ==
    /\ Exported
    /\ Len(effects.textures) = 2
    /\ ~effects.textures[1].upscaled
    /\ effects.textures[2].upscaled

----------------------------------------------------------------------------
(* The edit history of a layer *)

UndoTaken(c, forward) ==
    /\ c.handler = "undo_slice"
    /\ c.signal = "returned"
    /\ c.arg = (IF forward THEN <<1>> ELSE <<0>>)

(* C14: an undo of a layer followed by a redo of it restores exactly the
   versioned filename (and the pixels) the layer had before the undo, and
   leaves the other layers as they were; after the undo the redo is
   available. *)
C14_UndoThenRedoRestores ==
    [][/\ \A i \in 1..Len(image_slices) :
             (UndoTaken(call', FALSE) /\ call'.n = i) => can_undo(i, TRUE)'
       /\ (/\ UndoTaken(call', TRUE)
           /\ effects.undone # << >>
           /\ ~effects.undone[1].forward
           /\ effects.undone[1].index = call'.n) =>
              /\ image_slices_filenames' = effects.undone[1].filenames
              /\ image_slices' = effects.undone[1].slices
              /\ image_depths' = image_depths]_vars

(* the redo that followed the undo of the second of two layers, back at
   the revision _v2 *)
C14_Witness ==
    /\ UndoTaken(call, TRUE)
    /\ call.n = 2
    /\ Len(image_slices_filenames) = 2
    /\ image_slices_filenames[2][2] = 2
    /\ image_slices_filenames[1][2] = 0
    /\ image_slices[2] # image_slices[1]

UndoAsked(c, index, forward) ==
    /\ c.handler = "undo_slice"
    /\ c.n = index
    /\ c.arg = (IF forward THEN <<1>> ELSE <<0>>)

(* C15: an undo or redo at the boundary of a layer's history changes
   nothing: undo_slice ends in PreventUpdate without rewriting the state
   file, and the layers, their filenames and the files on disk stay as they
   were; can_undo is true exactly when the step succeeds. *)
C15_BoundaryStepChangesNothing ==
    [][\A index \in 1..Len(image_slices), forward \in BOOLEAN :
          UndoAsked(call', index, forward) =>
             /\ can_undo(index, forward) <=> call'.signal = "returned"
             /\ can_undo(index, forward) =>
                   image_slices_filenames'[index]
                      # image_slices_filenames[index]
             /\ ~can_undo(index, forward) =>
                   /\ call'.signal = "PreventUpdate"
                   /\ effects'.to_file = << >>
                   /\ ~call'.to_file
                   /\ UNCHANGED <<layerlists, canvas, selected_slice, files,
                                  imgData, pending>>]_vars

(* a redo refused on a layer that is at its newest revision, _v2, with the
   original file behind it *)
C15_Witness ==
    /\ UndoAsked(call, 1, TRUE)
    /\ call.signal = "PreventUpdate"
    /\ image_slices_filenames[1][2] = 2
    /\ can_undo(1, FALSE)
    /\ ~can_undo(1, TRUE)

PixelEdits == {"paste_clipboard_request", "remove_mask_slice_request",
               "add_mask_slice_request", "slice_upload"}

Edited(c, index) ==
    /\ c.handler \in PixelEdits
    /\ c.signal = "returned"
    /\ c.n = index

(* C16: once a layer was taken a step back and then edited, a redo of
   that layer is not available (can_undo forward is false) until it is
   taken a step back again. *)
C16_NoRedoAfterUndoAndEdit ==
    [][\A index \in 1..Len(image_slices) :
          (/\ effects.undone # << >>
           /\ ~effects.undone[1].forward
           /\ effects.undone[1].index = index
           /\ Edited(call', index)) => ~can_undo(index, TRUE)']_vars

(* C17: no edit, undo, redo or deletion removes the file of a recorded
   revision or overwrites it with different pixels. *)
C17_RevisionFilesKept ==
    [][\A f \in DOMAIN files :
          f \in DOMAIN files' /\ files'[f] = files[f]]_vars

----------------------------------------------------------------------------
(* The pixel-mutating edits *)

(* C18: a pixel-mutating edit (paste, remove mask, add mask, upload)
   replaces the filename of the layer it edits by filename_add_version of
   the old one, once, and leaves the other filenames, the other layers'
   pixels, the depths and the number and order of the layers as they
   were. *)
C18_EditVersionsOnlyTarget ==
    [][\A index \in 1..Len(image_slices) :
          Edited(call', index) =>
             /\ image_slices_filenames' =
                   [image_slices_filenames EXCEPT
                       ![index] = <<@[1], IF @[2] = 0 THEN 2 ELSE @[2] + 1>>]
             /\ Len(image_slices') = Len(image_slices)
             /\ \A j \in 1..Len(image_slices) :
                   j # index => image_slices'[j] = image_slices[j]
             /\ image_depths' = image_depths
             /\ positive_prompts' = positive_prompts
             /\ negative_prompts' = negative_prompts]_vars

(* the mask was removed from the second of two layers, whose file is now
   _v2 while the first layer's is the original *)
C18_Witness ==
    /\ Edited(call, 2)
    /\ call.handler = "remove_mask_slice_request"
    /\ Len(image_slices_filenames) = 2
    /\ image_slices_filenames[2][2] = 2
    /\ image_slices_filenames[1][2] = 0

UploadCalled == call.handler = "slice_upload"

(* C19: a valid upload persists the session exactly once, by to_file with
   save_image_slices=False, save_depth_map=False and
   save_input_image=False. *)
C19_UploadSavesJsonOnly ==
    (UploadCalled /\ call.signal = "returned") =>
        effects.to_file = <<SaveOnly(FALSE)>>

(* C20: slice_upload ends in PreventUpdate, without changing the session
   and without writing to disk, when there is no session filename (the
   cache is then not consulted), when the session has no layers, and when
   the triggering layer came without content. *)
C20_UploadRejectedWithoutMutation ==
    [][(call'.handler = "slice_upload") =>
          /\ (\/ ~effects'.from_cache
              \/ Len(image_slices) = 0
              \/ call'.arg = << >>) <=> call'.signal = "PreventUpdate"
          /\ call'.signal = "PreventUpdate" =>
                /\ effects'.to_file = << >>
                /\ ~call'.to_file
                /\ UNCHANGED <<layerlists, canvas, selected_slice, files, imgData,
                               clipboard_image, pending>>
          /\ call'.signal # "PreventUpdate" =>
                /\ call'.signal = "returned"
                /\ effects'.from_cache]_vars

(* the callback rejected in a session whose layers were all deleted *)
C20_Witness ==
    /\ UploadCalled
    /\ call.signal = "PreventUpdate"
    /\ effects.from_cache
    /\ Len(image_slices) = 0
    /\ DOMAIN files # {}

----------------------------------------------------------------------------
(* The size of the layers *)

(* C21: every layer's pixel buffer has the width and height of the source
   image, and so of every other layer, whatever the size and the aspect
   ratio of the images uploaded for the layers. *)
C21_LayersHaveSourceSize ==
    \A i \in 1..Len(image_sizes) : image_sizes[i] = SourceSize

----------------------------------------------------------------------------
(* The order of the layers *)

Ascending(s) == \A i \in 1..(Len(s) - 1) : s[i] <= s[i + 1]

(* C22: whatever layers are generated, created, deleted, given another
   depth or balanced, the layers are in the order of their depths
   (state.image_depths is non-decreasing) and the lists of pixels, filenames
   and depths have the same length, a layer's entries at the same index. *)
C22_LayersAscendingAndAligned ==
    /\ Ascending(image_depths)
    /\ Len(image_slices) = Len(image_depths)
    /\ Len(image_slices_filenames) = Len(image_depths)
    /\ \A i \in 1..Len(image_slices) :
          /\ image_slices_filenames[i] \in DOMAIN files
          /\ files[image_slices_filenames[i]] = image_slices[i]
    /\ \A i, j \in 1..Len(image_slices_filenames) :
          i # j => image_slices_filenames[i] # image_slices_filenames[j]

(* a layer created from a mask at depth 128 went between layers at the
   depths 0 and 255 *)
C22_Witness ==
    /\ call.handler = "create_single_slice_request"
    /\ call.signal = "returned"
    /\ call.n = 2
    /\ image_depths = <<0, 128, 255>>

(* the layer named f is at the index i *)
LayerAt(names, i, f) == i \in 1..Len(names) /\ names[i] = f

(* C23: after record_depth_input gave a layer another depth the selection
   does not point at another layer than before: a selection that points at
   a layer afterwards pointed at that layer before; the selection is
   cleared when the index of the edited layer changed and is unchanged when
   it did not. *)
C23_SelectionFollowsDepthChange ==
    [][\A index \in 1..Len(image_slices) :
          (/\ call'.handler = "record_depth_input"
           /\ call'.signal = "returned"
           /\ call'.n = index) =>
             LET edited == image_slices_filenames[index]
             IN /\ \A s \in 1..Len(image_slices) :
                      selected_slice' = Some(s) =>
                          /\ selected_slice = Some(s)
                          /\ image_slices_filenames'[s] =
                                 image_slices_filenames[s]
                /\ IF LayerAt(image_slices_filenames', index, edited)
                   THEN selected_slice' = selected_slice
                   ELSE selected_slice' = None]_vars

(* the first of two layers is selected and the second one was given
   another depth behind it: the selection is still on the first layer *)
C23_Witness ==
    /\ call.handler = "record_depth_input"
    /\ call.signal = "returned"
    /\ call.n = 2
    /\ call.ret = <<2>>
    /\ call.arg = <<255>>
    /\ selected_slice = Some(1)
    /\ image_depths = <<0, 255>>

(* C24: when all layers have the same depth the export raises no error,
   hands one card per layer to the exporter and places every card at
   camera_distance. *)
C24_EqualDepthsCardsAtCameraDistance ==
    (/\ call.handler = "export_state_as_gltf"
     /\ Len(image_depths) > 0
     /\ \A i \in 1..Len(image_depths) : image_depths[i] = image_depths[1])
    => /\ call.signal = "returned"
       /\ effects.exported
       /\ Len(effects.cards) = Len(image_slices)
       /\ Len(effects.textures) = Len(image_slices)
       /\ \A i \in 1..Len(effects.cards) : effects.cards[i] = CameraDistance

(* two layers at the depth 128 were exported *)
C24_Witness ==
    /\ call.handler = "export_state_as_gltf"
    /\ call.signal = "returned"
    /\ image_depths = <<128, 128>>
    /\ effects.cards = <<CameraDistance, CameraDistance>>

(* C25: export_state_as_gltf is idempotent: the second of two consecutive
   identical calls hands the exporter the output path, aspect ratio, cards,
   textures and depth textures of the first, returns the same path, and
   generates no depth map. *)
C25_ExportIdempotent ==
    [][(/\ call.handler = "export_state_as_gltf"
        /\ call'.handler = "export_state_as_gltf"
        /\ call'.n = call.n
        /\ effects'.repeated)
       => /\ call'.signal = call.signal
          /\ effects'.exported /\ effects.exported
          /\ effects'.output_path = effects.output_path
          /\ effects'.output_path = OutputPath(Filename)
          /\ effects'.aspect_ratio = effects.aspect_ratio
          /\ effects'.cards = effects.cards
          /\ effects'.textures = effects.textures
          /\ effects'.depth_textures = effects.depth_textures
          /\ effects'.generate_depth_map = << >>
          /\ effects'.saved_depth = << >>
          /\ depth_files' = depth_files]_vars

(* the second of two exports with displacement: both layers are given
   their depth textures and no depth map was generated *)
C25_Witness ==
    /\ call.handler = "export_state_as_gltf"
    /\ call.n = 1
    /\ effects.repeated
    /\ effects.generate_depth_map = << >>
    /\ Len(effects.depth_textures) = 2
    /\ Len(effects.cards) = 2

(* the callbacks that read the layer list *)
LayerConsumers ==
    {"balance_slices_request", "slice_upload", "restore_state_slices",
     "export_state_as_gltf", "export_animation"}

(* C26: in a session without layers, balancing the depths, a layer upload,
   the restore of the layers, the glTF export and the animation export end
   as nothing to do: no exception, no change of the session, no file
   written and no exporter or renderer run. *)
C26_NoLayersNothingToDo ==
    [][(Len(image_slices) = 0 /\ call'.handler \in LayerConsumers)
       => /\ call'.signal = "PreventUpdate"
          /\ effects'.to_file = << >>
          /\ ~effects'.exported
          /\ effects'.frames = 0
          /\ effects'.saved_depth = << >>
          /\ UNCHANGED <<layerlists, canvas, selected_slice, files, imgData,
                         depth_files, upscaled_files, clipboard_image>>]_vars

(* C27: the depth postprocessing of a layer without any fully opaque
   pixel is not an error: compute_depth_map_for_slices with postprocessing
   returns, with a depth map saved for every layer. *)
C27_ZeroCoverageLayerPostprocessed ==
    (/\ call.handler = "compute_depth_map_for_slices"
     /\ effects.postprocess_depth_map # << >>
     /\ \E i \in 1..Len(image_slices) :
           \A p \in CliPixels : image_slices[i][p] # 255)
    => /\ call.signal = "returned"
       /\ Len(effects.saved_depth) = Len(image_slices)

(* C28: click_event rejects an invalid trigger before it touches the
   session: without a filename it signals PreventUpdate, with a trigger
   other than the image listener and the commit button it raises
   ValueError, with the image listener's trigger and no event or no
   rectangle data it signals PreventUpdate; slice_mask, slice_pixel and
   points_selected are unchanged in the three cases. *)
C28_ClickRejectedUntouched ==
    [][(call'.handler = "click_event" /\ effects'.click.t_id # "") =>
          LET c == effects'.click
              untouched == UNCHANGED <<slice_mask, slice_pixel,
                                       slice_pixel_depth, points_selected,
                                       selected_slice, layerlists>>
          IN /\ ~c.filename =>
                   call'.signal = "PreventUpdate" /\ untouched
             /\ (c.filename /\ c.t_id \notin {"el", "SEG_MULTI_COMMIT"}) =>
                   call'.signal = "ValueError" /\ untouched
             /\ (c.filename /\ c.t_id = "el"
                    /\ (~c.event \/ ~c.rect_data)) =>
                   call'.signal = "PreventUpdate" /\ untouched]_vars

(* a click with an unknown trigger was rejected while a mask was pending
   and a point was recorded *)
C28_Witness ==
    /\ call.handler = "click_event"
    /\ call.signal = "ValueError"
    /\ effects.click.t_id = "other"
    /\ slice_mask # None
    /\ Len(points_selected) = 1

(* the number of points among the first k that were recorded with ctrl
   held (neg) or not held *)
CountBefore(points, k, neg) ==
    Cardinality({j \in 1..k : points[j][2] = neg})

(* C29: in multi-point segment mode a click before the commit appends
   (point, ctrl) to state.points_selected and leaves the pending mask
   unchanged; the commit hands the recorded points to the segmentation in
   their order, the points recorded without ctrl as positive and those
   recorded with ctrl as negative, every point in exactly one list. *)
C29_MultiPointCollectThenPartition ==
    [][(/\ call'.handler = "click_event"
        /\ call'.signal = "returned"
        /\ effects'.click.mode = "segment"
        /\ multi_point_mode) =>
          IF effects'.click.t_id = "el"
          THEN /\ Len(points_selected') = Len(points_selected) + 1
               /\ SubSeq(points_selected', 1, Len(points_selected)) =
                     points_selected
               /\ points_selected'[Len(points_selected')][1] \in Pixels
               /\ Some(points_selected'[Len(points_selected')][1]) =
                     slice_pixel'
               /\ points_selected'[Len(points_selected')][2] \in BOOLEAN
               /\ UNCHANGED <<slice_mask, layerlists, imgData>>
          ELSE LET pos == effects'.positive_points
                   neg == effects'.negative_points
               IN /\ Len(pos) + Len(neg) = Len(points_selected)
                  /\ \A k \in 1..Len(points_selected) :
                        LET n == CountBefore(points_selected, k,
                                             points_selected[k][2])
                        IN IF points_selected[k][2]
                           THEN /\ n <= Len(neg)
                                /\ neg[n] = points_selected[k][1]
                           ELSE /\ n <= Len(pos)
                                /\ pos[n] = points_selected[k][1]]_vars

(* two points were recorded, the second one with ctrl held, and committed:
   one positive and one negative point reached the segmentation *)
C29_Witness ==
    /\ call.handler = "click_event"
    /\ call.signal = "returned"
    /\ effects.click.t_id = "SEG_MULTI_COMMIT"
    /\ multi_point_mode
    /\ Len(points_selected) = 2
    /\ ~points_selected[1][2] /\ points_selected[2][2]
    /\ effects.positive_points = <<points_selected[1][1]>>
    /\ effects.negative_points = <<points_selected[2][1]>>
    /\ slice_mask # None

(* C30: copy_to_clipboard with a pending mask stores a clipboard image
   whose alpha is the pending mask, with the colours of the composed
   selected layer when a layer is selected and of the input image
   otherwise, and changes no layer and not the input image; without a
   pending mask it logs 'No mask selected' and leaves the clipboard
   unchanged; without n_clicks or without filename it signals
   PreventUpdate. *)
C30_CopyStoresMaskAsAlpha ==
    [][call'.handler = "copy_to_clipboard" =>
          /\ UNCHANGED <<layerlists, canvas, imgData, files, slice_mask,
                         selected_slice>>
          /\ IF call'.n # 2
             THEN /\ call'.signal = "PreventUpdate"
                  /\ UNCHANGED clipboard_image
             ELSE IF slice_mask = None
             THEN /\ call'.signal = "returned"
                  /\ call'.arg = <<"", "No mask selected">>
                  /\ UNCHANGED clipboard_image
             ELSE /\ call'.signal = "returned"
                  /\ clipboard_image' = slice_mask
                  /\ call'.arg =
                        <<IF selected_slice # None
                          THEN "slice_image_composed" ELSE "imgData",
                          "Copied mask to clipboard">>]_vars

----------------------------------------------------------------------------
(* C31: whenever update_slices reaches its selection assertion (there are
   layers, there is a depth map and a layer is selected), the selection is
   the index of an existing layer: 0 <= selected_slice < len(image_slices),
   here 1 <= selected_slice <= Len(image_slices). *)
C31_SelectionNeverDangles ==
    (/\ call.handler = "update_slices"
     /\ Len(image_slices) # 0
     /\ depthMapData # None
     /\ selected_slice # None)
       => Val(selected_slice) \in 1..Len(image_slices)

(* C32: whenever update_slices has run, the per-layer lists have one
   length: len(image_slices) == len(image_slices_filenames) ==
   len(image_depths). *)
C32_ParallelListsSameLength ==
    call.handler = "update_slices" =>
       /\ Len(image_slices) = Len(image_slices_filenames)
       /\ Len(image_slices) = Len(image_depths)

(* update_slices redrew two regenerated layers after the list had three
   layers and an uploaded revision *)
C32_Witness ==
    /\ call.handler = "update_slices"
    /\ call.signal = "returned"
    /\ Len(image_slices) = 2
    /\ Len(image_slices_filenames) = 2
    /\ Len(image_depths) = 2
    /\ \E f \in DOMAIN files : f[1] = 3
    /\ \E f \in DOMAIN files : f[2] > 0
    /\ \A i \in 1..2 : image_slices_filenames[i] = <<i, 0>>

(* the pending mask `after` is what click_event makes of the pending mask
   `before` and the new mask: the new mask, the pixelwise maximum with
   shift, the pixelwise minimum with 255 - new with ctrl and no shift *)
Combined(before, new, shiftClick, ctrlClick, after) ==
    IF before = None \/ ~(shiftClick \/ ctrlClick)
    THEN after = Some(new)
    ELSE /\ after # None
         /\ \A p \in Pixels :
               LET old == Val(before)[p]
                   inverse == 255 - new[p]
               IN Val(after)[p] =
                     IF shiftClick
                     THEN (IF old >= new[p] THEN old ELSE new[p])
                     ELSE (IF old <= inverse THEN old ELSE inverse)

(* C33: a click_event that returns after computing a new mask leaves as
   pending mask: the new mask when no mask was pending or neither shift
   nor ctrl is held; the pixelwise maximum of the pending and the new mask
   with shift held; the pixelwise minimum of the pending mask and 255
   minus the new mask with ctrl and not shift held.  The new mask is the
   depth band of the clicked pixel, or in segment mode a mask of the
   segmentation model; a commit of collected points has no keys held. *)
C33_MaskCombination ==
    [][(/\ call'.handler = "click_event"
        /\ call'.signal = "returned"
        /\ effects'.click.t_id # ""
        /\ ~(/\ effects'.click.t_id = "el"
             /\ effects'.click.mode = "segment"
             /\ multi_point_mode)) =>
          LET c == effects'.click
              news == IF c.mode = "segment" THEN SegmentMasks
                      ELSE {Val(depth_slice_from_pixel(
                                   depthMapData, imgThresholds,
                                   Val(slice_pixel')).mask)}
          IN \E new \in news :
                Combined(slice_mask, new, c.shiftClick, c.ctrlClick,
                         slice_mask')]_vars

(* a click on the far pixel with shift and ctrl held, on a pending mask of
   the near pixel: the union, shift taking precedence *)
C33_Witness ==
    /\ call.handler = "click_event"
    /\ call.signal = "returned"
    /\ call.pre_mask = Some([p \in Pixels |-> IF p = 1 THEN 255 ELSE 0])
    /\ effects.click.mode = "depth"
    /\ effects.click.shiftClick
    /\ effects.click.ctrlClick
    /\ slice_pixel = Some(NumPixels)
    /\ slice_mask = Some([p \in Pixels |-> 255])

MaskEdits == {"add_mask_slice_request", "remove_mask_slice_request"}

(* C34: after an add-mask or remove-mask edit was applied, the next step is
   the slice refresh, which clears the pending mask and pixel; an add or
   remove request that follows that refresh directly logs 'No mask
   selected' and changes no layer, no filename, no file and saves
   nothing. *)
C34_RepeatedMaskEditIsNoOp ==
    [][/\ (call.handler \in MaskEdits /\ call.signal = "returned") =>
             /\ call'.handler = "update_slices"
             /\ call'.signal = "returned"
             /\ slice_mask' = None
             /\ slice_pixel' = None
       /\ (/\ call.handler = "update_slices"
           /\ effects.to_file = <<SaveOnly(TRUE)>>
           /\ call'.handler \in MaskEdits) =>
             /\ call'.signal = "no_update"
             /\ call'.arg = <<"No mask selected">>
             /\ ~call'.to_file
             /\ effects'.to_file = << >>
             /\ UNCHANGED <<layerlists, files, selected_slice>>]_vars

(* a repeated add-mask request on the layer that was edited once, with no
   click in between *)
C34_Witness ==
    /\ call.handler = "add_mask_slice_request"
    /\ call.signal = "no_update"
    /\ call.arg = <<"No mask selected">>
    /\ slice_pixel = None
    /\ selected_slice = Some(1)
    /\ image_slices_filenames =
          <<filename_add_version(<<1, 0>>), <<2, 0>>>>
    /\ DOMAIN files = {<<1, 0>>, <<2, 0>>, filename_add_version(<<1, 0>>)}
    /\ clipboard_image = None

(* what a guarded request misses in the session, as the line it logs; ""
   when its guard is met *)
MissingFor(handler) ==
    IF handler = "paste_clipboard_request" /\ clipboard_image = None
    THEN "Nothing in the clipboard"
    ELSE IF handler \in MaskEdits /\ slice_mask = None
    THEN "No mask selected"
    ELSE IF selected_slice = None THEN "No slice selected"
    ELSE ""

GuardedRequests ==
    MaskEdits \cup {"paste_clipboard_request", "delete_slice_request"}

(* C35: a paste, add-mask, remove-mask or delete request that finds its
   clipboard image or pending mask absent, or no layer selected, ends with
   no_update and one log line; the layers, their depths, filenames and
   number, the files on disk, the selection, the pending mask and the
   clipboard are unchanged, no refresh is triggered and the session is not
   saved. *)
C35_GuardedRequestsOnlyLog ==
    [][(call'.handler \in GuardedRequests
        /\ MissingFor(call'.handler) # "") =>
          /\ call'.signal = "no_update"
          /\ call'.arg = <<MissingFor(call'.handler)>>
          /\ ~call'.to_file
          /\ effects'.to_file = << >>
          /\ UNCHANGED <<layerlists, files, file_sizes, image_sizes,
                         selected_slice, slice_mask, slice_pixel,
                         clipboard_image, imgData, pending>>]_vars

(* a paste with a mask in the clipboard and no layer selected, after the
   first layer was edited *)
C35_Witness ==
    /\ call.handler = "paste_clipboard_request"
    /\ call.signal = "no_update"
    /\ call.arg = <<"No slice selected">>
    /\ clipboard_image # None
    /\ selected_slice = None
    /\ Len(image_slices) = 2
    /\ image_slices_filenames[1][2] > 0

(* C36: generate_depth_map_callback leaves state.imgThresholds = None and
   the layers as they were; until update_thresholds runs nothing but the
   redraw of the depth map happens; that update_thresholds does not stop
   early, also for an unchanged slice count: it returns with the thresholds
   of the histogram of the new depth map, and leaves the layers, their
   depths, their filenames and the files as they were. *)
C36_RegeneratedDepthInvalidatesThresholds ==
    [][/\ call'.handler = "generate_depth_map_callback" =>
             /\ imgThresholds' = None
             /\ depthMapData' # None
             /\ UNCHANGED <<layerlists, files, num_slices>>
       /\ (imgThresholds = None /\ depthMapData # None) =>
             /\ call'.handler \in {"update_depth_map_callback",
                                   "update_thresholds"}
             /\ call'.handler = "update_thresholds" =>
                   /\ call'.signal = "returned"
                   /\ imgThresholds' =
                         Some(analyze_depth_histogram(Val(depthMapData),
                                                      call'.n))
                   /\ num_slices' = call'.n
                   /\ UNCHANGED <<layerlists, files, depthMapData>>]_vars

(* update_thresholds re-derived the thresholds of a regenerated depth map
   for the slice count the session already had, with its two layers kept *)
C36_Witness ==
    /\ call.handler = "update_thresholds"
    /\ call.signal = "returned"
    /\ call.pre = None
    /\ call.n = 2
    /\ num_slices = 2
    /\ depthMapData = Some(FarFarther)
    /\ imgThresholds = Some(analyze_depth_histogram(FarFarther, 2))
    /\ imgThresholds # Some(analyze_depth_histogram(NearFar, 2))
    /\ image_depths = generate_image_slices(
                         NearFar, analyze_depth_histogram(NearFar, 2)).depths
    /\ Len(image_slices) = 2

(* C37: a create_single_slice_request that returns adds exactly one layer
   and selects it: the selection is the insertion index the call got from
   add_slice, the layer there is fully transparent with depth 127 when no
   mask was pending and else has the pending mask as its alpha and
   state.slice_pixel_depth as its depth, its filename is not the name of
   another layer, and the other layers, their depths and filenames are
   those from before, in their order. *)
C37_CreateAddsAndSelectsOneLayer ==
    [][(/\ call'.handler = "create_single_slice_request"
        /\ call'.signal = "returned") =>
          /\ Len(image_slices') = Len(image_slices) + 1
          /\ Len(image_depths') = Len(image_depths) + 1
          /\ Len(image_slices_filenames') = Len(image_slices_filenames) + 1
          /\ selected_slice' = Some(call'.n)
          /\ call'.n \in 1..Len(image_slices')
          /\ image_slices'[call'.n] =
                (IF slice_mask = None THEN [p \in Pixels |-> 0]
                 ELSE Val(slice_mask))
          /\ image_depths'[call'.n] =
                (IF slice_mask = None THEN 127 ELSE slice_pixel_depth)
          /\ image_slices_filenames'[call'.n]
                \notin Names(image_slices_filenames)
          /\ RemoveAt(image_slices', call'.n) = image_slices
          /\ RemoveAt(image_depths', call'.n) = image_depths
          /\ RemoveAt(image_slices_filenames', call'.n) =
                image_slices_filenames]_vars

(* a layer cut with the mask of a click on the far pixel, created while
   the first layer was selected: it is inserted behind the two generated
   layers and selected *)
C37_Witness ==
    /\ call.handler = "create_single_slice_request"
    /\ call.signal = "returned"
    /\ call.pre_mask = Some([p \in Pixels |-> IF p = 1 THEN 0 ELSE 255])
    /\ call.n = 3
    /\ selected_slice = Some(3)
    /\ Len(image_slices) = 3
    /\ image_slices[3] = Val(call.pre_mask)
    /\ image_depths = <<0, 128, 128>>

(* C38: when compute_depth_map_for_slices returned with postprocessing,
   the black level of every layer was taken over the pixels that are fully
   opaque (alpha = 255) in the layer's alpha as it was passed in, before
   the erosion (the samples of the output are clipped to 0..255 after the
   subtraction). *)
C38_BlackLevelOverOriginallyOpaque ==
    (/\ call.handler = "compute_depth_map_for_slices"
     /\ call.signal = "returned"
     /\ effects.postprocess_depth_map # << >>)
    => \A k \in 1..Len(effects.postprocess_depth_map) :
          call.arg[k] =
             {p \in CliPixels :
                 image_slices[effects.postprocess_depth_map[k]][p] = 255}

(* ceil(a / b) for a >= 0 and b >= 1: the least n with n * b >= a *)
Ceil(a, b) == CHOOSE n \in 0..a : n * b >= a /\ (n - 1) * b < a

(* C39: the tile loop of upscale_image_tiled visits only tiles whose
   source rectangle is non-empty and inside the image; when it is through
   it has visited ceil(width/step) * ceil(height/step) tiles, step =
   tile_size - overlap, and every source pixel lies in the rectangle of a
   visited tile. *)
C39_TilesCoverImage ==
    LET step == tiles.tile_size - tiles.overlap
        inside(px, py, box) ==
            box[1] <= px /\ px < box[3] /\ box[2] <= py /\ py < box[4]
    IN /\ \A k \in 1..Len(tiles.visited) :
             LET box == tiles.visited[k]
             IN /\ 0 <= box[1] /\ box[1] < box[3] /\ box[3] <= tiles.width
                /\ 0 <= box[2] /\ box[2] < box[4] /\ box[4] <= tiles.height
       /\ tiles.returned =>
             /\ Len(tiles.visited) =
                   Ceil(tiles.width, step) * Ceil(tiles.height, step)
             /\ \A px \in 0..(tiles.width - 1), py \in 0..(tiles.height - 1) :
                   \E k \in 1..Len(tiles.visited) :
                      inside(px, py, tiles.visited[k])

(* a 4 x 3 image cut with tile_size 3 and overlap 1: four tiles, the last
   one clipped at the right and the bottom edge *)
C39_Witness ==
    /\ tiles.returned
    /\ tiles.width = 4
    /\ tiles.height = 3
    /\ tiles.tile_size = 3
    /\ tiles.overlap = 1
    /\ tiles.visited = <<<<0, 0, 3, 3>>, <<2, 0, 4, 3>>, <<0, 2, 3, 3>>,
                         <<2, 2, 4, 3>>>>

=============================================================================
